---- MODULE Spec2Model ----
(***************************************************************************)
(* Model of fetchkit's download pipeline: the mirror race                  *)
(* (src/download/mirror.rs), the download orchestrator and the pre-flight  *)
(* `exist` query (src/download/mod.rs) and the verifiers they drive        *)
(* (src/verify.rs).                                                        *)
(*                                                                         *)
(* A download attempt is one async function; it is modelled as a process   *)
(* whose steps are the points where it calls one of its collaborators (the *)
(* HTTP client, the response stream, the file system, the progress sink,   *)
(* the verifier).  What the collaborators answer (a GET failing, the next  *)
(* item of a stream, the time a chunk took, a write failing) is chosen by  *)
(* the environment at the moment of the call.                              *)
(***************************************************************************)
EXTENDS Integers, Sequences, FiniteSets, TLC

(***************************************************************************)
(* Bounds of the model.                                                    *)
(***************************************************************************)
\* longest mirror list of a MirrorOptions
MaxMirrors == 1
\* largest number of chunks a response stream delivers
MaxChunks == 2
\* largest reading of the probe's clock
MaxElapsed == 1
\* largest expected size given to a builder or a SizeVerifierBuilder
MaxSize == 1
\* longest byte sequence fed to a verifier taken alone
MaxData == 2
\* largest number of update calls on a SizeVerifier fed with long slices
MaxUpdates == 3
\* largest number of non-empty reads update_reader is followed through
MaxReads == 3
\* longest file name of an archive, in tokens (a dot or a word without dots)
MaxName == 5
\* largest number of entries read from an archive
MaxEntries == 2

\* the download attempts; attempt 2 only runs in the concurrent specification
Procs == {1, 2}
URLs == {"a", "b"}
Byte == {0, 1}
\* the probe budgets given to MirrorOptions::new: max_bytes and max_time, in
\* the unit of the probe's clock
BytesBudgets == 0..2
TimeBudgets == 0..1

\* u64::MAX, scaled to the integers TLC has (2^30 - 1 stands for 2^64 - 1)
U64Max == 1073741823
\* the output size of the digest D, in bytes
DigestOutputSize == 1
\* the digest has values 0 .. DigestMod - 1 in each output byte
DigestMod == 2

(***************************************************************************)
(* Option, Result and Error (src/error.rs).                                *)
(***************************************************************************)
None == <<>>
Some(x) == <<x>>
IsSome(o) == Len(o) = 1
Unwrap(o) == o[1]

\* enum ErrorKind, in the order of its variants
ErrorKind == <<"Io", "Verify", "Extract", "Network", "Other">>

\* the discriminant of a variant
Discriminant(kind) == CHOOSE i \in 1..Len(ErrorKind) : ErrorKind[i] = kind

\* mutant: a hand-written PartialEq in which Other equals nothing
eq_OtherEqualsNothing(self, other) ==
    self # "Other" /\ other # "Other" /\ Discriminant(self) = Discriminant(other)

\* #[derive(PartialEq)] on a field-less enum: the discriminants are compared
eq(self, other) == Discriminant(self) = Discriminant(other)

NoDesc == <<>>
\* Error::new(kind).with_desc(desc)
Err(kind, desc) == [ok |-> FALSE, kind |-> kind, desc |-> desc]
Ok == [ok |-> TRUE]
\* impl From<std::io::Error> for Error
IoError == Err("Io", NoDesc)
\* the error a Client::get or a stream item carries
NetworkError == Err("Network", NoDesc)

RECURSIVE SeqsUpTo(_, _)
SeqsUpTo(S, n) ==
    IF n = 0 THEN {<<>>}
    ELSE LET T == SeqsUpTo(S, n - 1)
         IN  T \cup {Append(t, x) : t \in {u \in T : Len(u) = n - 1}, x \in S}

\* the chunks a stream can deliver (Bytes values): an empty one, one of one
\* byte and one of two bytes, of different content
Chunks == {<<>>, <<0>>, <<1, 0>>}

(***************************************************************************)
(* Verifiers (src/verify.rs).                                              *)
(***************************************************************************)
\* mutant: the addition wraps round (wrapping_add, or += in a release build)
SaturatingAdd_Wrapping(a, b) == (a + b) % (U64Max + 1)

SaturatingAdd(a, b) == IF b > U64Max - a THEN U64Max ELSE a + b

\* the incremental digest D: new, update, finalize
DigestNew == 0
RECURSIVE DigestUpdate(_, _)
DigestUpdate(h, data) ==
    IF data = <<>> THEN h
    ELSE DigestUpdate((h + Head(data) + 1) % DigestMod, Tail(data))
DigestFinalize(h) == [i \in 1..DigestOutputSize |-> h]

NoneVerifierBuilder == [kind |-> "none"]
SizeVerifierBuilder(expected_size) == [kind |-> "size", expected_size |-> expected_size]
HashVerifierBuilder(hash) == [kind |-> "hash", hash |-> hash]

\* mutant: HashVerifierBuilder::build does not look at the length of the hash
Build_AnyLength(b) ==
    CASE b.kind = "none" -> [ok |-> TRUE, v |-> [kind |-> "none"]]
      [] b.kind = "size" ->
            [ok |-> TRUE,
             v |-> [kind |-> "size", expected_size |-> b.expected_size, current_size |-> 0]]
      [] b.kind = "hash" ->
            [ok |-> TRUE, v |-> [kind |-> "hash", hasher |-> DigestNew, hash |-> b.hash]]

\* VerifierBuilder::build: Ok(verifier) as <<verifier>>, or the error
Build(b) ==
    CASE b.kind = "none" -> [ok |-> TRUE, v |-> [kind |-> "none"]]
      [] b.kind = "size" ->
            [ok |-> TRUE,
             v |-> [kind |-> "size", expected_size |-> b.expected_size, current_size |-> 0]]
      [] b.kind = "hash" ->
            IF Len(b.hash) # DigestOutputSize
            THEN Err("Verify", <<"Invalid hash length">>)
            ELSE [ok |-> TRUE, v |-> [kind |-> "hash", hasher |-> DigestNew, hash |-> b.hash]]

\* mutant: SizeVerifier keeps the length of the last chunk (= for +=)
Update_LastChunk(v, data) ==
    CASE v.kind = "none" -> v
      [] v.kind = "size" -> [v EXCEPT !.current_size = Len(data)]
      [] v.kind = "hash" -> [v EXCEPT !.hasher = DigestUpdate(v.hasher, data)]

\* Verifier::update
Update(v, data) ==
    CASE v.kind = "none" -> v
      [] v.kind = "size" ->
            [v EXCEPT !.current_size = SaturatingAdd(v.current_size, Len(data))]
      [] v.kind = "hash" -> [v EXCEPT !.hasher = DigestUpdate(v.hasher, data)]

\* mutant: SizeVerifier accepts any stream at least as long as expected
Verify_SizeAtLeast(v) ==
    CASE v.kind = "none" -> Ok
      [] v.kind = "size" ->
            IF v.current_size >= v.expected_size THEN Ok
            ELSE Err("Verify", <<"File size mismatch: expected ", v.expected_size,
                                 ", got ", v.current_size>>)
      [] v.kind = "hash" ->
            IF DigestFinalize(v.hasher) = v.hash THEN Ok
            ELSE Err("Verify", <<"Hash mismatch">>)

\* mutant: the description of SizeVerifier's error has the two counts swapped
Verify_CountsSwapped(v) ==
    CASE v.kind = "none" -> Ok
      [] v.kind = "size" ->
            IF v.current_size = v.expected_size THEN Ok
            ELSE Err("Verify", <<"File size mismatch: expected ", v.current_size,
                                 ", got ", v.expected_size>>)
      [] v.kind = "hash" ->
            IF DigestFinalize(v.hasher) = v.hash THEN Ok
            ELSE Err("Verify", <<"Hash mismatch">>)

\* Verifier::verify
Verify(v) ==
    CASE v.kind = "none" -> Ok
      [] v.kind = "size" ->
            IF v.current_size = v.expected_size THEN Ok
            ELSE Err("Verify", <<"File size mismatch: expected ", v.expected_size,
                                 ", got ", v.current_size>>)
      [] v.kind = "hash" ->
            IF DigestFinalize(v.hasher) = v.hash THEN Ok
            ELSE Err("Verify", <<"Hash mismatch">>)

\* the size of the buffer update_reader reads into
READ_BUF_SIZE == 8192
Min(a, b) == IF a < b THEN a ELSE b

\* Verifier::update_reader over a reader holding `data`, none of whose reads fails
RECURSIVE UpdateReader(_, _)
UpdateReader(v, data) ==
    LET n == Min(READ_BUF_SIZE, Len(data))
    IN  IF n = 0 THEN v
        ELSE UpdateReader(Update(v, SubSeq(data, 1, n)), SubSeq(data, n + 1, Len(data)))

(***************************************************************************)
(* The probe result and its ranking (src/download/mirror.rs).              *)
(***************************************************************************)
Bytes(b) == [tag |-> "Bytes", v |-> b]
Time(t) == [tag |-> "Time", v |-> t]

\* mutant: equal byte counts outrank each other (>= for >)
gt_BytesGe(self, other) ==
    CASE self.tag = "Bytes" /\ other.tag = "Bytes" -> self.v >= other.v
      [] self.tag = "Time" /\ other.tag = "Time" -> self.v < other.v
      [] self.tag = "Time" /\ other.tag = "Bytes" -> TRUE
      [] self.tag = "Bytes" /\ other.tag = "Time" -> FALSE

\* mutant: among the probes that reached the byte cutoff the slower one wins
gt_SlowerWins(self, other) ==
    CASE self.tag = "Bytes" /\ other.tag = "Bytes" -> self.v > other.v
      [] self.tag = "Time" /\ other.tag = "Time" -> self.v > other.v
      [] self.tag = "Time" /\ other.tag = "Bytes" -> TRUE
      [] self.tag = "Bytes" /\ other.tag = "Time" -> FALSE

\* BytesOrTime::gt
gt(self, other) ==
    CASE self.tag = "Bytes" /\ other.tag = "Bytes" -> self.v > other.v
      [] self.tag = "Time" /\ other.tag = "Time" -> self.v < other.v
      [] self.tag = "Time" /\ other.tag = "Bytes" -> TRUE
      [] self.tag = "Bytes" /\ other.tag = "Time" -> FALSE

\* Ok(speed) of speedtest
OkSpeed(speed) == [ok |-> TRUE, v |-> speed]

(***************************************************************************)
(* The state.                                                              *)
(*   d[p]  the download attempt p: the fields of its DownloadBuilder and   *)
(*         the progress argument it has read so far, the locals of         *)
(*         download, fastest_mirror and speedtest, and its position pc     *)
(*   fs    the file at the destination path (all attempts share the path)  *)
(*   log   the calls made to the collaborators so far, in order            *)
(*   calc  the evaluation of a function taken alone (the specifications of *)
(*         single functions): its arguments and, once applied, its result; *)
(*         None while a download is modelled                               *)
(*                                                                         *)
(* The fields of the builder and the arguments of download are inputs.     *)
(* Each is drawn at the statement that first reads it; nothing before that *)
(* statement depends on it, so the behaviours are those of drawing every   *)
(* input at construction.  A value that the code moves or drops (the       *)
(* mirror options after the race, the locals of fastest_mirror when the    *)
(* race has handed over its result) leaves the state with it.              *)
(***************************************************************************)
VARIABLES d, fs, log, calc

vars == <<d, fs, log, calc>>

\* MirrorOptions::new
MirrorOptions(mirrors, max_bytes, max_time) ==
    [mirrors |-> mirrors, max_bytes |-> max_bytes, max_time |-> max_time,
     error_handler |-> None]

\* MirrorOptions::with_error_handler
with_error_handler(self, handler) == [self EXCEPT !.error_handler = Some(handler)]

\* the mirror options a builder can be given: with or without an error handler
MirrorOptionsSet ==
    LET plain == {MirrorOptions(m, b, t) : m \in SeqsUpTo(URLs, MaxMirrors),
                                           b \in BytesBudgets, t \in TimeBudgets}
    IN  plain \cup {with_error_handler(o, "handler") : o \in plain}

\* the expected hashes given to HashVerifierBuilder::new: every digest value,
\* one hash that is too short and one that is too long
HashSet ==
    {[i \in 1..DigestOutputSize |-> h] : h \in 0..(DigestMod - 1)}
        \cup {<<>>, [i \in 1..(DigestOutputSize + 1) |-> 0]}

VerifierBuilders ==
    {NoneVerifierBuilder} \cup {SizeVerifierBuilder(n) : n \in 0..MaxSize}
        \cup {HashVerifierBuilder(h) : h \in HashSet}

\* the values of the field verifier: None, or Some builder (with_verifier)
VerifierOptions == {None} \cup {Some(b) : b \in VerifierBuilders}

\* an attempt at position pc that has read none of its inputs yet
Attempt(pc) ==
    [pc |-> pc,
     \* DownloadBuilder and the progress argument
     url |-> None, size |-> 0, verifier |-> None, mirror_options |-> None,
     progress |-> FALSE,
     \* exist
     exist_call |-> None,
     \* fastest_mirror
     idx |-> 1, fastest_mirror |-> None, fastest_speed |-> Bytes(0), speeds |-> <<>>,
     \* speedtest
     probe_downloaded |-> 0, elapsed |-> 0,
     \* download
     chosen |-> None, ver |-> None, chunk |-> <<>>, nchunks |-> 0, downloaded |-> 0,
     result |-> None]

\* an attempt that is never made
Off == Attempt("off")

NoFile == [exists |-> FALSE, data |-> <<>>, creator |-> 0]
File(data, creator) == [exists |-> TRUE, data |-> data, creator |-> creator]

\* the destination before any attempt: absent, or a file left by someone else
InitialFiles == {NoFile} \cup {File(x, 0) : x \in {<<>>, <<1>>}}

Event(p, op, arg) == [p |-> p, op |-> op, arg |-> arg]

Init ==
    /\ d = [p \in Procs |-> IF p = 1 THEN Attempt("start") ELSE Off]
    /\ fs \in InitialFiles
    /\ log = <<>>
    /\ calc = None

Candidates(r) == <<Unwrap(r.url)>> \o Unwrap(r.mirror_options).mirrors

\* mutant: the error is noted but the function goes on (a missing `?`)
Return_KeepGoing(r, res) == [r EXCEPT !.result = Some(res)]

\* download returns
Return(r, res) == [r EXCEPT !.pc = "done", !.result = Some(res)]

(***************************************************************************)
(* DownloadBuilder::exist on a builder with the given size and verifier,   *)
(* called before download.                                                 *)
(* fault: the file-system call that fails, if one does.                    *)
(***************************************************************************)
ExistResult(size, verifier, file, fault) ==
    IF file.exists
    THEN IF fault \in {"open", "metadata"} THEN IoError
         ELSE IF Len(file.data) # size THEN [ok |-> TRUE, v |-> FALSE]
         ELSE IF IsSome(verifier)
              THEN LET b == Build(Unwrap(verifier))
                   IN  IF ~b.ok THEN b
                       ELSE IF fault = "read" THEN IoError
                       ELSE LET fed == UpdateReader(b.v, file.data)
                            IN  [ok |-> TRUE, v |-> TRUE]
              ELSE [ok |-> TRUE, v |-> TRUE]
    ELSE [ok |-> TRUE, v |-> FALSE]

Exist(p) ==
    /\ d[p].pc = "start"
    /\ d[p].exist_call = None
    /\ \E size \in 0..MaxSize, verifier \in VerifierOptions,
          fault \in {"none", "open", "metadata", "read"} :
          d' = [d EXCEPT ![p].exist_call =
                  Some([size |-> size, verifier |-> verifier,
                        result |-> ExistResult(size, verifier, fs, fault)])]
    /\ UNCHANGED <<fs, log, calc>>

(***************************************************************************)
(* download, first statement: the mirror race is entered iff mirror        *)
(* options were supplied.                                                  *)
(***************************************************************************)
\* mutant: the mirror options are not looked at
Start_IgnoreOptions(p) ==
    /\ d[p].pc = "start"
    /\ \E url \in URLs, opts \in {None} \cup {Some(o) : o \in MirrorOptionsSet} :
          d' = [d EXCEPT ![p] =
                  [d[p] EXCEPT !.pc = "build", !.exist_call = None,
                               !.mirror_options = opts, !.chosen = Some(url)]]
    /\ UNCHANGED <<fs, log, calc>>

Start(p) ==
    /\ d[p].pc = "start"
    /\ \E url \in URLs, opts \in {None} \cup {Some(o) : o \in MirrorOptionsSet} :
          d' = [d EXCEPT ![p] =
                  IF IsSome(opts)
                  THEN [d[p] EXCEPT !.pc = "race", !.exist_call = None,
                                    !.url = Some(url), !.mirror_options = opts,
                                    !.idx = 1, !.fastest_mirror = None,
                                    !.fastest_speed = Bytes(0), !.speeds = <<>>]
                  ELSE [d[p] EXCEPT !.pc = "build", !.exist_call = None,
                                    !.chosen = Some(url)]]
    /\ UNCHANGED <<fs, log, calc>>

(***************************************************************************)
(* fastest_mirror and speedtest.                                           *)
(***************************************************************************)
\* mutant: a failed probe ends the race (the error is not skipped)
RaceStep_AbortOnError(r, speed) ==
    LET mirror == Candidates(r)[r.idx]
        better == speed.ok /\ gt(speed.v, r.fastest_speed)
    IN  [r EXCEPT !.pc = "race",
                  !.idx = IF speed.ok THEN r.idx + 1 ELSE Len(Candidates(r)) + 1,
                  !.speeds = Append(r.speeds, speed),
                  !.fastest_mirror = IF better THEN Some(mirror) ELSE r.fastest_mirror,
                  !.fastest_speed = IF better THEN speed.v ELSE r.fastest_speed]

\* mutant: every successful probe replaces the leader
RaceStep_LastWins(r, speed) ==
    [r EXCEPT !.pc = "race",
              !.idx = r.idx + 1,
              !.speeds = Append(r.speeds, speed),
              !.fastest_mirror = IF speed.ok THEN Some(Candidates(r)[r.idx])
                                 ELSE r.fastest_mirror,
              !.fastest_speed = IF speed.ok THEN speed.v ELSE r.fastest_speed]

\* the body of the loop of fastest_mirror once speedtest has returned `speed`
RaceStep(r, speed) ==
    LET mirror == Candidates(r)[r.idx]
        better == speed.ok /\ gt(speed.v, r.fastest_speed)
    IN  [r EXCEPT !.pc = "race",
                  !.idx = r.idx + 1,
                  !.speeds = Append(r.speeds, speed),
                  !.fastest_mirror = IF better THEN Some(mirror) ELSE r.fastest_mirror,
                  !.fastest_speed = IF better THEN speed.v ELSE r.fastest_speed]

\* mutant: the next GET does not wait for the probe in flight
ProbeGet_WithoutWaiting(p) ==
    /\ d[p].pc \in {"race", "probe"}
    /\ d[p].idx <= Len(Candidates(d[p]))
    /\ log' = Append(log, Event(p, "probe_get", d[p].idx))
    /\ \E got \in BOOLEAN :
          d' = [d EXCEPT ![p] =
                  IF got
                  THEN [d[p] EXCEPT !.pc = "probe", !.probe_downloaded = 0,
                                    !.elapsed = 0, !.nchunks = 0]
                  ELSE RaceStep(d[p], NetworkError)]
    /\ UNCHANGED <<fs, calc>>

\* speedtest: client.get(url)
ProbeGet(p) ==
    /\ d[p].pc = "race"
    /\ d[p].idx <= Len(Candidates(d[p]))
    /\ log' = Append(log, Event(p, "probe_get", d[p].idx))
    /\ \E got \in BOOLEAN :
          d' = [d EXCEPT ![p] =
                  IF got
                  THEN [d[p] EXCEPT !.pc = "probe", !.probe_downloaded = 0,
                                    !.elapsed = 0, !.nchunks = 0]
                  ELSE RaceStep(d[p], NetworkError)]
    /\ UNCHANGED <<fs, calc>>

\* mutant: the time cutoff is looked at before the byte cutoff
ProbeChunk_TimeFirst(r, chunk, now) ==
    LET downloaded == r.probe_downloaded + Len(chunk)
        max_bytes == Unwrap(r.mirror_options).max_bytes
        max_time == Unwrap(r.mirror_options).max_time
        at == [r EXCEPT !.probe_downloaded = downloaded, !.elapsed = now]
    IN  IF now >= max_time THEN RaceStep(at, OkSpeed(Bytes(downloaded)))
        ELSE IF downloaded >= max_bytes THEN RaceStep(at, OkSpeed(Time(now)))
        ELSE [at EXCEPT !.nchunks = r.nchunks + 1]

\* speedtest after stream.next() returned Some(Ok(chunk)) and the clock reads now;
\* probe_downloaded and elapsed are what speedtest has counted and read when
\* it returns or goes round the loop
ProbeChunk(r, chunk, now) ==
    LET downloaded == r.probe_downloaded + Len(chunk)
        max_bytes == Unwrap(r.mirror_options).max_bytes
        max_time == Unwrap(r.mirror_options).max_time
        at == [r EXCEPT !.probe_downloaded = downloaded, !.elapsed = now]
    IN  IF downloaded >= max_bytes THEN RaceStep(at, OkSpeed(Time(now)))
        ELSE IF now >= max_time THEN RaceStep(at, OkSpeed(Bytes(downloaded)))
        ELSE [at EXCEPT !.nchunks = r.nchunks + 1]

\* speedtest: stream.next() yields a chunk
ProbeNextChunk(p) ==
    /\ d[p].pc = "probe"
    /\ d[p].nchunks < MaxChunks
    /\ \E chunk \in Chunks, now \in d[p].elapsed..MaxElapsed :
          d' = [d EXCEPT ![p] = ProbeChunk(d[p], chunk, now)]
    /\ UNCHANGED <<fs, log, calc>>

\* speedtest: stream.next() yields an error
ProbeNextErr(p) ==
    /\ d[p].pc = "probe"
    /\ d' = [d EXCEPT ![p] = RaceStep(d[p], NetworkError)]
    /\ UNCHANGED <<fs, log, calc>>

\* mutant: a stream that ends early counts for the bytes it delivered
ProbeNextEnd_CountsAsBytes(p) ==
    /\ d[p].pc = "probe"
    /\ log' = Append(log, Event(p, "probe_end", d[p].idx))
    /\ d' = [d EXCEPT ![p] = RaceStep(d[p], OkSpeed(Bytes(d[p].probe_downloaded)))]
    /\ UNCHANGED <<fs, calc>>

\* speedtest: stream.next() yields None before a cutoff was hit
ProbeNextEnd(p) ==
    /\ d[p].pc = "probe"
    /\ log' = Append(log, Event(p, "probe_end", d[p].idx))
    /\ d' = [d EXCEPT ![p] =
                RaceStep(d[p], Err("Network", <<"File size exceeds maximum bytes">>))]
    /\ UNCHANGED <<fs, calc>>

\* fastest_mirror has returned: pc = "race" with every candidate probed
RaceReturned(r) == r.pc = "race" /\ r.idx > Len(Candidates(r))

\* mutant: without a selection download falls back to the primary URL
RaceEnd_FallBackToPrimary(p) ==
    /\ RaceReturned(d[p])
    /\ d' = [d EXCEPT ![p] =
                [d[p] EXCEPT !.pc = "build",
                             !.chosen = IF IsSome(d[p].fastest_mirror)
                                        THEN d[p].fastest_mirror ELSE d[p].url]]
    /\ UNCHANGED <<fs, log, calc>>

\* download: .ok_or(Error::new(ErrorKind::Network).with_desc("No mirrors available"))?
RaceEnd(p) ==
    /\ RaceReturned(d[p])
    /\ d' = [d EXCEPT ![p] =
                IF IsSome(d[p].fastest_mirror)
                THEN [d[p] EXCEPT !.pc = "build", !.chosen = d[p].fastest_mirror,
                                  !.url = None, !.mirror_options = None,
                                  !.speeds = <<>>, !.idx = 1,
                                  !.fastest_mirror = None, !.fastest_speed = Bytes(0),
                                  !.probe_downloaded = 0, !.elapsed = 0, !.nchunks = 0]
                ELSE Return(d[p], Err("Network", <<"No mirrors available">>))]
    /\ UNCHANGED <<fs, log, calc>>

(***************************************************************************)
(* download after the source is chosen.                                    *)
(***************************************************************************)
\* mutant: the progress sink is initialized before the verifier is built
BuildVerifier_AfterProgressInit(p) ==
    /\ d[p].pc = "build"
    /\ \E verifier \in VerifierOptions :
          d' = [d EXCEPT ![p] =
                  IF IsSome(verifier)
                  THEN LET b == Build(Unwrap(verifier))
                       IN  IF b.ok THEN [d[p] EXCEPT !.pc = "init", !.verifier = verifier,
                                                     !.ver = Some(b.v)]
                           ELSE Return([d[p] EXCEPT !.verifier = verifier], b)
                  ELSE [d[p] EXCEPT !.pc = "init"]]
    /\ log' = Append(log, Event(p, "init", 0))
    /\ UNCHANGED <<fs, calc>>

\* self.verifier.as_ref().map(|verifier| verifier.build()).transpose()?
BuildVerifier(p) ==
    /\ d[p].pc = "build"
    /\ \E verifier \in VerifierOptions :
          d' = [d EXCEPT ![p] =
                  IF IsSome(verifier)
                  THEN LET b == Build(Unwrap(verifier))
                       IN  IF b.ok THEN [d[p] EXCEPT !.pc = "init", !.verifier = verifier,
                                                     !.ver = Some(b.v)]
                           ELSE Return([d[p] EXCEPT !.verifier = verifier], b)
                  ELSE [d[p] EXCEPT !.pc = "init"]]
    /\ UNCHANGED <<fs, log, calc>>

\* progress.map(|p| p.init(self.size))
InitProgress(p) ==
    /\ d[p].pc = "init"
    /\ \/ /\ d' = [d EXCEPT ![p].pc = "get"]
          /\ log' = log
       \/ \E size \in 0..MaxSize :
             /\ d' = [d EXCEPT ![p] = [d[p] EXCEPT !.pc = "get", !.progress = TRUE,
                                                  !.size = size]]
             /\ log' = Append(log, Event(p, "init", size))
    /\ UNCHANGED <<fs, calc>>

\* mutant: no request is made after the race, the stream at hand is written
Get_ReusesProbe(p) ==
    /\ d[p].pc = "get"
    /\ d' = [d EXCEPT ![p].pc = "create"]
    /\ UNCHANGED <<fs, log, calc>>

\* mutant: a failed GET closes the progress sink before returning
Get_FinishOnError(p) ==
    /\ d[p].pc = "get"
    /\ \E got \in BOOLEAN :
          /\ d' = [d EXCEPT ![p] =
                    IF got THEN [d[p] EXCEPT !.pc = "create"]
                    ELSE Return(d[p], NetworkError)]
          /\ log' = IF got \/ ~d[p].progress
                    THEN Append(log, Event(p, "get", Unwrap(d[p].chosen)))
                    ELSE Append(Append(log, Event(p, "get", Unwrap(d[p].chosen))),
                                Event(p, "finish", <<>>))
    /\ UNCHANGED <<fs, calc>>

\* client.get(url).await?
Get(p) ==
    /\ d[p].pc = "get"
    /\ log' = Append(log, Event(p, "get", Unwrap(d[p].chosen)))
    /\ \E got \in BOOLEAN :
          d' = [d EXCEPT ![p] =
                  IF got THEN [d[p] EXCEPT !.pc = "create"] ELSE Return(d[p], NetworkError)]
    /\ UNCHANGED <<fs, calc>>

\* mutant: File::create (truncating) in place of File::create_new
CreateFile_Truncate(p) ==
    /\ d[p].pc = "create"
    /\ \E fault \in BOOLEAN :
          IF fault
          THEN /\ d' = [d EXCEPT ![p] = Return(d[p], IoError)]
               /\ UNCHANGED <<fs, log, calc>>
          ELSE /\ d' = [d EXCEPT ![p] = [d[p] EXCEPT !.pc = "stream", !.nchunks = 0,
                                                    !.downloaded = 0]]
               /\ fs' = File(<<>>, p)
               /\ log' = Append(log, Event(p, "create", <<>>))
    /\ UNCHANGED calc

\* mutant: an existing file is opened and written to (OpenOptions::create
\* in place of create_new)
CreateFile_OpenOrCreate(p) ==
    /\ d[p].pc = "create"
    /\ \E fault \in BOOLEAN :
          IF fault
          THEN /\ d' = [d EXCEPT ![p] = Return(d[p], IoError)]
               /\ UNCHANGED <<fs, log>>
          ELSE /\ d' = [d EXCEPT ![p] = [d[p] EXCEPT !.pc = "stream", !.nchunks = 0,
                                                    !.downloaded = 0]]
               /\ fs' = IF fs.exists THEN fs ELSE File(<<>>, p)
               /\ log' = Append(log, Event(p, "create", <<>>))
    /\ UNCHANGED calc

\* std::fs::File::create_new(self.dest)?
\* fault: the call fails for another reason than the file existing
CreateFile(p) ==
    /\ d[p].pc = "create"
    /\ \E fault \in BOOLEAN :
          IF fs.exists \/ fault
          THEN /\ d' = [d EXCEPT ![p] = Return(d[p], IoError)]
               /\ UNCHANGED <<fs, log, calc>>
          ELSE /\ d' = [d EXCEPT ![p] = [d[p] EXCEPT !.pc = "stream", !.nchunks = 0,
                                                    !.downloaded = 0]]
               /\ fs' = File(<<>>, p)
               /\ log' = Append(log, Event(p, "create", <<>>))
    /\ UNCHANGED calc

\* stream.next() yields a chunk: downloaded += chunk.len() as u64
StreamNextChunk(p) ==
    /\ d[p].pc = "stream"
    /\ d[p].nchunks < MaxChunks
    /\ \E chunk \in Chunks :
          /\ d' = [d EXCEPT ![p] = [d[p] EXCEPT !.pc = "write", !.chunk = chunk,
                                               !.nchunks = d[p].nchunks + 1,
                                               !.downloaded = d[p].downloaded + Len(chunk)]]
          /\ log' = Append(log, Event(p, "recv", chunk))
    /\ UNCHANGED <<fs, calc>>

\* mutant: a failed stream is retried with a new GET of the same source
StreamNextErr_Retry(p) ==
    /\ d[p].pc = "stream"
    /\ d' = [d EXCEPT ![p].pc = "get"]
    /\ UNCHANGED <<fs, log, calc>>

\* mutant: on a stream error the partial file is removed before returning
StreamNextErr_RemovePartial(p) ==
    /\ d[p].pc = "stream"
    /\ d' = [d EXCEPT ![p] = Return(d[p], NetworkError)]
    /\ fs' = NoFile
    /\ UNCHANGED <<log, calc>>

\* mutant: an error item ends the loop like the end of the stream
\* (while let Some(Ok(chunk)) = ...)
StreamNextErr_EndsLoop(p) ==
    /\ d[p].pc = "stream"
    /\ d' = [d EXCEPT ![p].pc = "finish"]
    /\ UNCHANGED <<fs, log, calc>>

\* stream.next() yields an error: let chunk = chunk?
StreamNextErr(p) ==
    /\ d[p].pc = "stream"
    /\ d' = [d EXCEPT ![p] = Return(d[p], NetworkError)]
    /\ UNCHANGED <<fs, log, calc>>

\* stream.next() yields None: the loop ends
StreamNextEnd(p) ==
    /\ d[p].pc = "stream"
    /\ d' = [d EXCEPT ![p].pc = "finish"]
    /\ log' = Append(log, Event(p, "end", <<>>))
    /\ UNCHANGED <<fs, calc>>

\* mutant: the result of write_all is dropped, the loop goes on after a failed write
WriteChunk_IgnoreError(p) ==
    /\ d[p].pc = "write"
    /\ \E written \in 0..Len(d[p].chunk) :
          LET bytes == SubSeq(d[p].chunk, 1, written)
          IN  /\ fs' = [fs EXCEPT !.data = fs.data \o bytes]
              /\ d' = [d EXCEPT ![p].pc = "set_position"]
              /\ log' = Append(log, Event(p, IF written = Len(d[p].chunk) THEN "write"
                                                                           ELSE "write_failed", bytes))
    /\ UNCHANGED calc

\* write.write_all(&chunk)?
\* written: the bytes that reached the file; fewer than the chunk when a write fails
WriteChunk(p) ==
    /\ d[p].pc = "write"
    /\ \E written \in 0..Len(d[p].chunk) :
          LET bytes == SubSeq(d[p].chunk, 1, written)
          IN  /\ fs' = [fs EXCEPT !.data = fs.data \o bytes]
              /\ IF written = Len(d[p].chunk)
                 THEN /\ d' = [d EXCEPT ![p].pc = "set_position"]
                      /\ log' = Append(log, Event(p, "write", bytes))
                 ELSE /\ d' = [d EXCEPT ![p] = Return(d[p], IoError)]
                      /\ log' = Append(log, Event(p, "write_failed", bytes))
    /\ UNCHANGED calc

\* mutant: the length of the chunk is reported, not the running total
SetPosition_ChunkLength(p) ==
    /\ d[p].pc = "set_position"
    /\ d' = [d EXCEPT ![p].pc = "update"]
    /\ log' = IF d[p].progress
              THEN Append(log, Event(p, "set_position", Len(d[p].chunk)))
              ELSE log
    /\ UNCHANGED <<fs, calc>>

\* progress.set_position(downloaded)
SetPosition(p) ==
    /\ d[p].pc = "set_position"
    /\ d' = [d EXCEPT ![p].pc = "update"]
    /\ log' = IF d[p].progress
              THEN Append(log, Event(p, "set_position", d[p].downloaded))
              ELSE log
    /\ UNCHANGED <<fs, calc>>

\* verifier.update(&chunk)
UpdateVerifier(p) ==
    /\ d[p].pc = "update"
    /\ d' = [d EXCEPT ![p] =
                IF IsSome(d[p].ver)
                THEN [d[p] EXCEPT !.pc = "stream",
                                  !.ver = Some(Update(Unwrap(d[p].ver), d[p].chunk))]
                ELSE [d[p] EXCEPT !.pc = "stream"]]
    /\ log' = IF IsSome(d[p].ver) THEN Append(log, Event(p, "update", d[p].chunk)) ELSE log
    /\ UNCHANGED <<fs, calc>>

\* progress.finish()
Finish(p) ==
    /\ d[p].pc = "finish"
    /\ d' = [d EXCEPT ![p].pc = "verify"]
    /\ log' = IF d[p].progress THEN Append(log, Event(p, "finish", <<>>)) ELSE log
    /\ UNCHANGED <<fs, calc>>

\* mutant: a download that fails its verification removes the file it wrote
VerifyAndReturn_RemoveOnFailure(p) ==
    /\ d[p].pc = "verify"
    /\ d' = [d EXCEPT ![p] =
                IF IsSome(d[p].ver) THEN Return(d[p], Verify(Unwrap(d[p].ver)))
                ELSE Return(d[p], Ok)]
    /\ log' = IF IsSome(d[p].ver) THEN Append(log, Event(p, "verify", <<>>)) ELSE log
    /\ fs' = IF IsSome(d[p].ver) /\ ~Verify(Unwrap(d[p].ver)).ok THEN NoFile ELSE fs
    /\ UNCHANGED calc

\* mutant: the verdict is dropped (verifier.verify() without the `?`)
VerifyAndReturn_IgnoreVerdict(p) ==
    /\ d[p].pc = "verify"
    /\ d' = [d EXCEPT ![p] = Return(d[p], Ok)]
    /\ log' = IF IsSome(d[p].ver) THEN Append(log, Event(p, "verify", <<>>)) ELSE log
    /\ UNCHANGED <<fs, calc>>

\* verifier.verify()?; Ok(())
VerifyAndReturn(p) ==
    /\ d[p].pc = "verify"
    /\ d' = [d EXCEPT ![p] =
                IF IsSome(d[p].ver) THEN Return(d[p], Verify(Unwrap(d[p].ver)))
                ELSE Return(d[p], Ok)]
    /\ log' = IF IsSome(d[p].ver) THEN Append(log, Event(p, "verify", <<>>)) ELSE log
    /\ UNCHANGED <<fs, calc>>

Step(p) ==
    \/ Exist(p)
    \/ Start(p)
    \/ ProbeGet(p)
    \/ ProbeNextChunk(p)
    \/ ProbeNextErr(p)
    \/ ProbeNextEnd(p)
    \/ RaceEnd(p)
    \/ BuildVerifier(p)
    \/ InitProgress(p)
    \/ Get(p)
    \/ CreateFile(p)
    \/ StreamNextChunk(p)
    \/ StreamNextErr(p)
    \/ StreamNextEnd(p)
    \/ WriteChunk(p)
    \/ SetPosition(p)
    \/ UpdateVerifier(p)
    \/ Finish(p)
    \/ VerifyAndReturn(p)

Next == \E p \in Procs : Step(p)

Spec == Init /\ [][Next]_vars

(***************************************************************************)
(* Two download attempts on the same destination path, interleaved at      *)
(* their await points and file-system calls.  Both have chosen their       *)
(* source (no mirror options), have no verifier and no progress sink, and  *)
(* are about to request the source: nothing before that point looks at the *)
(* destination.                                                            *)
(***************************************************************************)
\* download of a builder without mirror options or verifier, called without
\* progress, at client.get(url)
AtGet(url) == [Attempt("get") EXCEPT !.chosen = Some(url)]

InitTwo ==
    /\ \E u \in [Procs -> URLs] : d = [p \in Procs |-> AtGet(u[p])]
    /\ fs \in InitialFiles
    /\ log = <<>>
    /\ calc = None

Transfer(p) ==
    \/ Get(p)
    \/ CreateFile(p)
    \/ StreamNextChunk(p)
    \/ StreamNextErr(p)
    \/ StreamNextEnd(p)
    \/ WriteChunk(p)
    \/ SetPosition(p)
    \/ UpdateVerifier(p)
    \/ Finish(p)
    \/ VerifyAndReturn(p)

NextTwo == \E p \in Procs : Transfer(p)

SpecTwo == InitTwo /\ [][NextTwo]_vars

(***************************************************************************)
(* fastest_mirror taken alone, with candidates that may stall: a stream    *)
(* that stops delivering without ending never wakes the probe that awaits  *)
(* its next item.  speedtest reads the clock only after an item arrives    *)
(* and awaits stream.next() with nothing around it (no timeout, no         *)
(* select), so a stalled probe has no step left.  Every step that is       *)
(* possible is eventually taken: the executor resumes a task whose future  *)
(* is ready, and a stream that has not stalled yields its next item.       *)
(***************************************************************************)
\* fastest_mirror is entered over the candidates url, mirrors... with a budget
InitRace ==
    /\ \E url \in URLs, opts \in MirrorOptionsSet :
          d = [p \in Procs |->
                 IF p = 1
                 THEN [Attempt("race") EXCEPT !.url = Some(url), !.mirror_options = Some(opts)]
                 ELSE Off]
    /\ fs = NoFile
    /\ log = <<>>
    /\ calc = None

\* the stream of the candidate under probe delivers nothing more and does not end
ProbeStall(p) ==
    /\ d[p].pc = "probe"
    /\ d' = [d EXCEPT ![p].pc = "stalled"]
    /\ UNCHANGED <<fs, log, calc>>

NextRace ==
    \E p \in Procs :
        \/ ProbeGet(p)
        \/ ProbeNextChunk(p)
        \/ ProbeNextErr(p)
        \/ ProbeNextEnd(p)
        \/ ProbeStall(p)

SpecRace == InitRace /\ [][NextRace]_vars /\ WF_vars(NextRace)

(***************************************************************************)
(* BytesOrTime::gt taken alone, as test_bytes_or_time_gt calls it: three   *)
(* probe results are drawn and compared with each other.                   *)
(***************************************************************************)
\* the BytesOrTime values compared
Speeds == {Time(t) : t \in 0..MaxElapsed} \cup {Bytes(b) : b \in BytesBudgets}

\* no download is under way
Idle ==
    /\ d = [p \in Procs |-> Off]
    /\ fs = NoFile
    /\ log = <<>>

InitRank ==
    /\ Idle
    /\ \E x \in Speeds, y \in Speeds, z \in Speeds :
          calc = [args |-> <<x, y, z>>, out |-> None]

\* out[i][j] is args[i].gt(&args[j])
Compare ==
    /\ calc.out = None
    /\ calc' = [calc EXCEPT !.out =
                  Some([i \in 1..3 |-> [j \in 1..3 |-> gt(calc.args[i], calc.args[j])]])]
    /\ UNCHANGED <<d, fs, log>>

NextRank == Compare

SpecRank == InitRank /\ [][NextRank]_vars

(***************************************************************************)
(* SizeVerifier taken alone, as the tests of verify.rs drive it: a byte    *)
(* sequence is cut into consecutive chunks in two ways, and each cut is    *)
(* fed chunk by chunk to a verifier of its own, built from one             *)
(* SizeVerifierBuilder.  verify may be called on either at any time; it    *)
(* consumes the verifier.                                                  *)
(*   calc.data      the byte sequence                                      *)
(*   calc.expected  the expected size given to SizeVerifierBuilder::new    *)
(*   calc.cuts[k]   the lengths of the chunks of cut k                     *)
(*   calc.v[k]      verifier k                                             *)
(*   calc.next[k]   the chunk verifier k is fed next                       *)
(*   calc.out[k]    what verify returned on verifier k                     *)
(***************************************************************************)
RECURSIVE Sum(_)
Sum(lens) == IF lens = <<>> THEN 0 ELSE Head(lens) + Sum(Tail(lens))

\* the cuts of n bytes into at most MaxChunks consecutive chunks, empty ones included
Cuts(n) == {c \in SeqsUpTo(0..n, MaxChunks) : Sum(c) = n}

\* chunk i of the cut c of data
ChunkOf(data, c, i) ==
    LET before == Sum(SubSeq(c, 1, i - 1))
    IN  SubSeq(data, before + 1, before + c[i])

InitSize ==
    /\ Idle
    /\ \E data \in SeqsUpTo(Byte, MaxData), expected \in 0..MaxData :
          \E c1 \in Cuts(Len(data)), c2 \in Cuts(Len(data)) :
             calc = [data |-> data, expected |-> expected, cuts |-> <<c1, c2>>,
                     v |-> [k \in 1..2 |-> Build(SizeVerifierBuilder(expected)).v],
                     next |-> <<1, 1>>, out |-> <<None, None>>]

\* verifier.update(chunk) on verifier k
SizeUpdate(k) ==
    /\ calc.out[k] = None
    /\ calc.next[k] <= Len(calc.cuts[k])
    /\ calc' = [calc EXCEPT
                  !.v[k] = Update(calc.v[k], ChunkOf(calc.data, calc.cuts[k], calc.next[k])),
                  !.next[k] = calc.next[k] + 1]
    /\ UNCHANGED <<d, fs, log>>

\* verifier.verify() on verifier k
SizeVerify(k) ==
    /\ calc.out[k] = None
    /\ calc' = [calc EXCEPT !.out[k] = Some(Verify(calc.v[k]))]
    /\ UNCHANGED <<d, fs, log>>

NextSize == \E k \in 1..2 : SizeUpdate(k) \/ SizeVerify(k)

SpecSize == InitSize /\ [][NextSize]_vars

(***************************************************************************)
(* SizeVerifier fed with slices that are long enough to fill the u64: only *)
(* the length of a slice enters update, so a slice is given by its length. *)
(*   calc.lens  the lengths of the slices fed so far                       *)
(*   calc.v     the verifier; calc.out  the verdict, once verify is called *)
(***************************************************************************)
\* isize::MAX, the longest slice there is, on the scale of U64Max
ISizeMax == (U64Max - 1) \div 2
SliceLens == {0, 1, 2, ISizeMax}

InitSat ==
    /\ Idle
    /\ \E expected \in {0, 1, U64Max} :
          calc = [lens |-> <<>>, v |-> Build(SizeVerifierBuilder(expected)).v,
                  out |-> None]

\* verifier.update(data) with data.len() = len
SatUpdate ==
    /\ calc.out = None
    /\ Len(calc.lens) < MaxUpdates
    /\ \E len \in SliceLens :
          calc' = [calc EXCEPT
                     !.lens = Append(calc.lens, len),
                     !.v.current_size = SaturatingAdd(calc.v.current_size, len)]
    /\ UNCHANGED <<d, fs, log>>

\* verifier.verify()
SatVerify ==
    /\ calc.out = None
    /\ calc' = [calc EXCEPT !.out = Some(Verify(calc.v))]
    /\ UNCHANGED <<d, fs, log>>

NextSat == SatUpdate \/ SatVerify

SpecSat == InitSat /\ [][NextSat]_vars

(***************************************************************************)
(* Verifier::update_reader on a SizeVerifier, read by read.  The reader     *)
(* holds `data`; a read fills the buffer, or returns fewer bytes (a short   *)
(* read), or 0 at the end of the data, or fails.                            *)
(*   calc.pos     the bytes the reader has delivered                       *)
(*   calc.pieces  the lengths of the slices given to update                *)
(*   calc.fed     the bytes given to update, in the order of the calls     *)
(*   calc.out     what update_reader returned                              *)
(***************************************************************************)
\* a content longer than the buffer, as in test_verify_size_with_update_reader
LongData == [i \in 1..(READ_BUF_SIZE + 2) |-> i % 2]
ReaderData == SeqsUpTo(Byte, MaxData) \cup {LongData}

\* what a read can return when m bytes fit: all of them, or one or two
ReadSizes(m) == {m} \cup {k \in {1, 2} : k < m}

InitReader ==
    /\ Idle
    /\ \E data \in ReaderData, expected \in (0..MaxData) \cup {Len(LongData)} :
          calc = [data |-> data, pos |-> 0, pieces |-> <<>>, fed |-> <<>>,
                  v |-> Build(SizeVerifierBuilder(expected)).v, out |-> None]

\* mutant: the whole buffer is fed, not the n bytes read (&buf for &buf[..n])
ReaderRead_WholeBuffer ==
    /\ calc.out = None
    /\ calc.pos < Len(calc.data)
    /\ Len(calc.pieces) < MaxReads
    /\ \E n \in ReadSizes(Min(READ_BUF_SIZE, Len(calc.data) - calc.pos)) :
          LET buf == SubSeq(calc.data, calc.pos + 1, calc.pos + n)
                       \o [i \in 1..(READ_BUF_SIZE - n) |-> 0]
          IN  calc' = [calc EXCEPT !.pos = calc.pos + n,
                                   !.pieces = Append(calc.pieces, Len(buf)),
                                   !.fed = calc.fed \o buf,
                                   !.v = Update(calc.v, buf)]
    /\ UNCHANGED <<d, fs, log>>

\* reader.read(&mut buf) returns n > 0: self.update(&buf[..n])
ReaderRead ==
    /\ calc.out = None
    /\ calc.pos < Len(calc.data)
    /\ Len(calc.pieces) < MaxReads
    /\ \E n \in ReadSizes(Min(READ_BUF_SIZE, Len(calc.data) - calc.pos)) :
          LET buf == SubSeq(calc.data, calc.pos + 1, calc.pos + n)
          IN  calc' = [calc EXCEPT !.pos = calc.pos + n,
                                   !.pieces = Append(calc.pieces, Len(buf)),
                                   !.fed = calc.fed \o buf,
                                   !.v = Update(calc.v, buf)]
    /\ UNCHANGED <<d, fs, log>>

\* reader.read(&mut buf) returns 0: break; Ok(())
ReaderEof ==
    /\ calc.out = None
    /\ calc.pos = Len(calc.data)
    /\ calc' = [calc EXCEPT !.out = Some(Ok)]
    /\ UNCHANGED <<d, fs, log>>

\* reader.read(&mut buf)? fails
ReaderErr ==
    /\ calc.out = None
    /\ calc' = [calc EXCEPT !.out = Some(IoError)]
    /\ UNCHANGED <<d, fs, log>>

NextReader == ReaderRead \/ ReaderEof \/ ReaderErr

SpecReader == InitReader /\ [][NextReader]_vars

(***************************************************************************)
(* ErrorKind's equality taken alone, as test_error_kind_partial_eq uses    *)
(* it: three kinds are drawn and compared with each other.                 *)
(***************************************************************************)
InitKind ==
    /\ Idle
    /\ \E x \in 1..Len(ErrorKind), y \in 1..Len(ErrorKind), z \in 1..Len(ErrorKind) :
          calc = [args |-> <<ErrorKind[x], ErrorKind[y], ErrorKind[z]>>, out |-> None]

\* out[i][j] is args[i] == args[j]
CompareKinds ==
    /\ calc.out = None
    /\ calc' = [calc EXCEPT !.out =
                  Some([i \in 1..3 |-> [j \in 1..3 |-> eq(calc.args[i], calc.args[j])]])]
    /\ UNCHANGED <<d, fs, log>>

NextKind == CompareKinds

SpecKind == InitKind /\ [][NextKind]_vars

(***************************************************************************)
(* ArchiveFile::extract and the two Archive implementations it dispatches  *)
(* to (src/extract).                                                       *)
(*                                                                         *)
(* A file name is a sequence of tokens: "." is one dot, every other token  *)
(* a non-empty run of bytes without a dot ("bad" is one that is not valid  *)
(* UTF-8).  get_extension works on the bytes; skipping the first byte and  *)
(* looking for the first dot is, on tokens, looking for the first dot      *)
(* behind the first token.                                                 *)
(*   calc.pc      "open": ArchiveFile::extract is called; "zip", "tar":    *)
(*                the loop of the Archive implementation; "done"           *)
(*   calc.name    the file name of the archive (dropped once dispatched)   *)
(*   calc.opened  File::open has succeeded                                 *)
(*   calc.calls   the mapper's calls: the entry, its kind, the answer      *)
(*   calc.disk    what extraction has put on disk: path, kind, entry       *)
(*   calc.result  what extract returned                                    *)
(***************************************************************************)
Tokens == {".", "zip", "tar", "gz", "tgz", "x", "bad"}
Names == SeqsUpTo(Tokens, MaxName) \ {<<>>}

\* Path::file_name: None when the path ends in a component that is no name
file_name(path) == IF path \in {<<>>, <<".">>, <<".", ".">>} THEN None ELSE Some(path)

\* mutant: the first byte of the name is not skipped (slice for slice[1..])
get_extension_FirstByteToo(path) ==
    IF file_name(path) = None THEN None
    ELSE LET dots == {j \in 1..Len(path) : path[j] = "."}
         IN  IF dots = {} THEN None
             ELSE LET i == CHOOSE j \in dots : \A k \in dots : j <= k
                  IN  Some(SubSeq(path, i + 1, Len(path)))

\* get_extension: everything behind the first dot that is not the first byte
get_extension(path) ==
    IF file_name(path) = None THEN None
    ELSE LET dots == {j \in 2..Len(path) : path[j] = "."}
         IN  IF dots = {} THEN None
             ELSE LET i == CHOOSE j \in dots : \A k \in dots : j <= k
                  IN  Some(SubSeq(path, i + 1, Len(path)))

\* OsStr::to_str
to_str(os) == IF \E j \in 1..Len(os) : os[j] = "bad" THEN None ELSE Some(os)

\* what ArchiveFile::extract does before it hands over to an Archive:
\* the error it returns, or the format it dispatches to
\* opened: File::open succeeds; valid: ZipArchive::new accepts the file
Dispatch(name, opened, valid) ==
    LET os == get_extension(name)
        ext == IF IsSome(os) THEN to_str(Unwrap(os)) ELSE None
    IN  IF ~opened THEN [format |-> None, result |-> Some(IoError)]
        ELSE IF ext = None
        THEN [format |-> None,
              result |-> Some(Err("Extract", <<"Unknown archive format ", name>>))]
        ELSE IF Unwrap(ext) = <<"zip">>
        THEN IF valid THEN [format |-> Some("zip"), result |-> None]
             ELSE [format |-> None, result |-> Some(Err("Extract", NoDesc))]
        ELSE IF Unwrap(ext) = <<"tar">> THEN [format |-> Some("tar"), result |-> None]
        ELSE IF Unwrap(ext) \in {<<"tgz">>, <<"tar", ".", "gz">>}
        THEN [format |-> Some("tgz"), result |-> None]
        ELSE [format |-> None,
              result |-> Some(Err("Extract", <<"Unsupported archive format ", name>>))]

InitExtract ==
    /\ Idle
    /\ \E name \in Names :
          calc = [pc |-> "open", name |-> Some(name), opened |-> FALSE,
                  calls |-> <<>>, disk |-> {}, result |-> None]

\* ArchiveFile::extract
OpenArchive ==
    /\ calc.pc = "open"
    /\ \E opened \in BOOLEAN, valid \in BOOLEAN :
          LET to == Dispatch(Unwrap(calc.name), opened, valid)
          IN  calc' = IF IsSome(to.result)
                      THEN [calc EXCEPT !.pc = "done", !.opened = opened,
                                        !.result = to.result]
                      ELSE [calc EXCEPT !.pc = IF Unwrap(to.format) = "zip" THEN "zip"
                                                                            ELSE "tar",
                                        !.opened = opened, !.name = None]
    /\ UNCHANGED <<d, fs, log>>

\* paths of entries inside an archive, and destinations a mapper answers
EntryPaths == {<<"f">>, <<"s">>, <<"s", "g">>}
Dsts == {<<"f">>, <<"o", "s">>, <<"o", "s", "g">>}
EntryKinds == {"file", "dir", "symlink"}

\* Path::parent
Parent(path) == SubSeq(path, 1, Len(path) - 1)

\* ensure_dir_exists: create_dir_all of a directory that does not exist
ensure_dir_exists(disk, dir) ==
    disk \cup {[path |-> SubSeq(dir, 1, k), kind |-> "dir", entry |-> 0] :
                 k \in {j \in 1..Len(dir) :
                          \A r \in disk : r.path # SubSeq(dir, 1, j)}}

\* an entry put at dst, replacing what was there
Unpack(disk, dst, kind, entry) ==
    {r \in disk : r.path # dst} \cup {[path |-> dst, kind |-> kind, entry |-> entry]}

Entries == Len(calc.calls)

\* the loop's end: every entry has been read
ExtractEnd ==
    /\ calc.pc \in {"zip", "tar"}
    /\ calc' = [calc EXCEPT !.pc = "done", !.result = Some(Ok)]
    /\ UNCHANGED <<d, fs, log>>

\* an entry that cannot be read, or whose path cannot be
ExtractBadEntry ==
    /\ calc.pc \in {"zip", "tar"}
    /\ Entries < MaxEntries
    /\ \E desc \in {"entry", "path"} :
          calc' = [calc EXCEPT !.pc = "done",
                               !.result = Some(Err(IF calc.pc = "zip" THEN "Extract"
                                                                      ELSE "Io",
                                                   <<desc>>))]
    /\ UNCHANGED <<d, fs, log>>

\* tar::Archive::extract, one turn of its loop
\* made: create_dir_all succeeds; unpacked: Entry::unpack succeeds
TarEntry ==
    /\ calc.pc = "tar"
    /\ Entries < MaxEntries
    /\ \E path \in EntryPaths, kind \in EntryKinds, to \in {None} \cup {Some(q) : q \in Dsts},
          made \in BOOLEAN, unpacked \in BOOLEAN :
          LET called == Append(calc.calls, [path |-> path, kind |-> kind, to |-> to])
              dirs   == ensure_dir_exists(calc.disk, Parent(Unwrap(to)))
          IN  calc' =
                IF to = None THEN [calc EXCEPT !.calls = called]
                ELSE IF ~made
                THEN [calc EXCEPT !.calls = called, !.pc = "done",
                                  !.result = Some(Err("Io", <<"dir">>))]
                ELSE IF ~unpacked
                THEN [calc EXCEPT !.calls = called, !.disk = dirs, !.pc = "done",
                                  !.result = Some(IoError)]
                ELSE [calc EXCEPT !.calls = called,
                                  !.disk = Unpack(dirs, Unwrap(to), kind, Len(called))]
    /\ UNCHANGED <<d, fs, log>>

\* zip::ZipArchive::extract, one turn of its loop
\* made: create_dir_all succeeds; written: the link or the file is written
ZipEntry ==
    /\ calc.pc = "zip"
    /\ Entries < MaxEntries
    /\ \E path \in EntryPaths, kind \in EntryKinds, to \in {None} \cup {Some(q) : q \in Dsts},
          made \in BOOLEAN, written \in BOOLEAN :
          LET called == Append(calc.calls, [path |-> path, kind |-> kind, to |-> to])
              dirs   == ensure_dir_exists(calc.disk, Parent(Unwrap(to)))
          IN  calc' =
                IF to = None \/ kind = "dir" THEN [calc EXCEPT !.calls = called]
                ELSE IF ~made
                THEN [calc EXCEPT !.calls = called, !.pc = "done",
                                  !.result = Some(Err("Io", <<"dir">>))]
                ELSE IF ~written
                THEN [calc EXCEPT !.calls = called, !.disk = dirs, !.pc = "done",
                                  !.result = Some(IoError)]
                ELSE [calc EXCEPT !.calls = called,
                                  !.disk = Unpack(dirs, Unwrap(to), kind, Len(called))]
    /\ UNCHANGED <<d, fs, log>>

NextExtract == OpenArchive \/ TarEntry \/ ZipEntry \/ ExtractBadEntry \/ ExtractEnd

SpecExtract == InitExtract /\ [][NextExtract]_vars

(***************************************************************************)
(* Reading the log.                                                        *)
(***************************************************************************)
\* the events of attempt p whose op is in ops, in order
EventsIn(l, p, ops) == SelectSeq(l, LAMBDA e : e.p = p /\ e.op \in ops)
EventsOf(p, ops) == EventsIn(log, p, ops)

RECURSIVE Args(_)
Args(events) == IF events = <<>> THEN <<>> ELSE <<Head(events).arg>> \o Args(Tail(events))

RECURSIVE Flatten(_)
Flatten(chunks) == IF chunks = <<>> THEN <<>> ELSE Head(chunks) \o Flatten(Tail(chunks))

\* the bytes attempt p received from the stream of its source, in arrival order
Streamed(p) == Flatten(Args(EventsOf(p, {"recv"})))

IsErr(o) == IsSome(o) /\ ~Unwrap(o).ok

(***************************************************************************)
(* Claims.                                                                 *)
(***************************************************************************)
\* the destination was there before any attempt and is still that file
PreExisting == fs.exists /\ fs.creator = 0

\* C1 (as claimed): in a run whose destination already exists as a file, no
\* client.get call is made (neither a probe nor the GET of the chosen
\* source), and download returns an error of kind Io.
C1_NoRequestWhenDestExists ==
    \A p \in Procs :
        PreExisting =>
            /\ EventsOf(p, {"probe_get", "get"}) = <<>>
            /\ d[p].pc = "done" => Unwrap(d[p].result) = IoError

\* the verdict of the supplied verifier over the whole content of the file
VerdictOver(builder, data) ==
    LET b == Build(builder)
    IN  IF b.ok THEN Verify(UpdateReader(b.v, data)) ELSE b

\* C2 (as claimed): exist returns Ok(true) only if the destination exists,
\* its length equals the expected size and, when a verifier was supplied,
\* the verifier's terminal check over the file's contents succeeds.
C2_ExistTrueOnlyIfVerified ==
    \A p \in Procs :
        (IsSome(d[p].exist_call)
            /\ Unwrap(d[p].exist_call).result = [ok |-> TRUE, v |-> TRUE]) =>
            LET call == Unwrap(d[p].exist_call)
            IN  /\ fs.exists
                /\ Len(fs.data) = call.size
                /\ IsSome(call.verifier) => VerdictOver(Unwrap(call.verifier), fs.data).ok

\* C3: when the destination exists at the time download opens it, download
\* returns an Io error and leaves the file as it was; and no step of any
\* attempt changes a file that no attempt created.
C3_ExistingFileUntouched ==
    [][/\ PreExisting => fs' = fs
       /\ \A p \in Procs :
            (d[p].pc = "create" /\ fs.exists /\ d'[p] # d[p]) =>
                /\ d'[p].pc = "done"
                /\ d'[p].result = Some(IoError)
                /\ fs' = fs]_vars

\* an attempt reached create_new, found a non-empty file there and returned Io
C3_Witness ==
    /\ PreExisting
    /\ fs.data # <<>>
    /\ d[1].pc = "done"
    /\ d[1].result = Some(IoError)
    /\ EventsOf(1, {"get"}) # <<>>

\* the calls with an effect on the file, the verifier or the progress sink
Effects == {"init", "create", "write", "write_failed", "set_position", "update", "finish", "verify"}
AllOps == Effects \cup {"probe_get", "get", "recv", "end"}

\* the call that fails when download meets an error at position pc, if the
\* failure is that of a logged call
FailingCall(pc) ==
    CASE pc = "get" -> "get"
      [] pc = "write" -> "write_failed"
      [] pc = "verify" -> "verify"
      [] OTHER -> "none"

\* C4: after the first error of a download the attempt has returned that
\* error: it takes no further step, makes no further call and changes the
\* file no more; in the step that meets the error nothing but the failing
\* call itself is made.
C4_NoEffectAfterError ==
    [][\A p \in Procs :
         /\ IsErr(d[p].result) =>
              /\ d'[p] = d[p]
              /\ EventsIn(log', p, AllOps) = EventsIn(log, p, AllOps)
              /\ fs' # fs => \E q \in Procs \ {p} : d'[q] # d[q]
         /\ (d[p].result = None /\ IsErr(d'[p].result)) =>
              LET old == EventsIn(log, p, AllOps)
                  new == EventsIn(log', p, AllOps)
              IN  /\ d'[p].pc = "done"
                  /\ \/ new = old
                     \/ new = Append(old, new[Len(new)])
                           /\ new[Len(new)].op = FailingCall(d[p].pc)]_vars

\* the stream failed after a chunk had been written, reported and fed
C4_Witness ==
    /\ d[1].pc = "done"
    /\ d[1].result = Some(NetworkError)
    /\ EventsOf(1, {"set_position"}) # <<>>
    /\ EventsOf(1, {"update"}) # <<>>

\* C5: a download with a Size verifier whose stream ran to its end with a
\* byte count other than the expected size returns a Verify error whose
\* description names the expected and the actual count, and the destination
\* file exists and holds exactly the streamed bytes in order.
C5_SizeMismatchIsVerifyError ==
    \A p \in Procs :
        (/\ d[p].pc = "done"
         /\ IsSome(d[p].verifier)
         /\ Unwrap(d[p].verifier).kind = "size"
         /\ EventsOf(p, {"end"}) # <<>>
         /\ Unwrap(d[p].verifier).expected_size # Len(Streamed(p))) =>
            /\ d[p].result = Some(Err("Verify",
                    <<"File size mismatch: expected ", Unwrap(d[p].verifier).expected_size,
                      ", got ", Len(Streamed(p))>>))
            /\ fs.exists
            /\ fs.creator = p
            /\ fs.data = Streamed(p)

\* more bytes were streamed than the Size verifier expected
C5_Witness ==
    /\ d[1].pc = "done"
    /\ IsErr(d[1].result)
    /\ Unwrap(d[1].result).kind = "Verify"
    /\ IsSome(d[1].verifier)
    /\ Unwrap(d[1].verifier).kind = "size"
    /\ Len(fs.data) > Unwrap(d[1].verifier).expected_size
    /\ fs.creator = 1

\* the last call of the round of one chunk
LastOfChunk(r) ==
    IF IsSome(r.verifier) THEN "update" ELSE IF r.progress THEN "set_position" ELSE "write"

\* C6: for every chunk the calls are made in the order write, set_position
\* (if a progress sink is present), update (if a verifier is present), each
\* with that chunk or the cumulative count; a chunk whose write fails is
\* neither reported nor fed, and a written chunk is reported and fed before
\* the next chunk is pulled.
C6_ChunkOrder ==
    \A p \in Procs :
        LET L == EventsOf(p, {"recv", "write", "write_failed", "set_position", "update"})
            r == d[p]
        IN  /\ \A i \in 1..Len(L) :
                  /\ L[i].op = "recv" => (i = 1 \/ L[i - 1].op = LastOfChunk(r))
                  /\ L[i].op \in {"write", "write_failed"} => (i > 1 /\ L[i - 1].op = "recv")
                  /\ L[i].op = "write" => L[i].arg = L[i - 1].arg
                  /\ L[i].op = "write_failed" => i = Len(L)
                  /\ L[i].op = "set_position" =>
                        /\ r.progress
                        /\ i > 1
                        /\ L[i - 1].op = "write"
                        /\ L[i].arg =
                              Len(Flatten(Args(SelectSeq(SubSeq(L, 1, i),
                                                         LAMBDA e : e.op = "write"))))
                  /\ L[i].op = "update" =>
                        /\ IsSome(r.verifier)
                        /\ i > 1
                        /\ L[i - 1].op = (IF r.progress THEN "set_position" ELSE "write")
                        /\ L[i].arg = L[i - (IF r.progress THEN 2 ELSE 1)].arg
            /\ (EventsOf(p, {"end"}) # <<>> /\ L # <<>>) => L[Len(L)].op = LastOfChunk(r)

\* one chunk went through the three calls, the write of the next one failed
C6_Witness ==
    /\ EventsOf(1, {"set_position"}) # <<>>
    /\ EventsOf(1, {"update"}) # <<>>
    /\ EventsOf(1, {"write_failed"}) # <<>>

\* every candidate of the race of attempt r has been probed and none succeeded
AllProbesFailed(r) ==
    /\ IsSome(r.mirror_options)
    /\ Len(r.speeds) = Len(Candidates(r))
    /\ \A i \in 1..Len(r.speeds) : ~r.speeds[i].ok

\* C7 (as claimed): when fastest_mirror returns and the probe of at least one
\* candidate returned a successful result, some candidate is selected.
C7_SomeSuccessSelects ==
    \A p \in Procs :
        (RaceReturned(d[p]) /\ \E i \in 1..Len(d[p].speeds) : d[p].speeds[i].ok) =>
            IsSome(d[p].fastest_mirror)

\* C8: if every candidate of the race fails, fastest_mirror returns None and
\* download returns the Network error "No mirrors available"; the attempt
\* neither creates the destination file nor writes a byte.
C8_AllFailedIsNetworkError ==
    \A p \in Procs :
        AllProbesFailed(d[p]) =>
            /\ d[p].fastest_mirror = None
            /\ d[p].pc \in {"race", "done"}
            /\ d[p].pc = "done" =>
                  d[p].result = Some(Err("Network", <<"No mirrors available">>))
            /\ EventsOf(p, {"get", "create", "write", "write_failed"}) = <<>>
            /\ fs.creator # p

\* both candidates failed, download returned, there is no destination file
C8_Witness ==
    /\ AllProbesFailed(d[1])
    /\ Len(d[1].speeds) >= 2
    /\ d[1].pc = "done"
    /\ d[1].result = Some(Err("Network", <<"No mirrors available">>))
    /\ fs = NoFile

\* the candidates attempt p has probed so far, by their place in the sequence
Probed(p) == Args(EventsOf(p, {"probe_get"}))

\* C9: a failed probe does not end the race: while the race runs no error is
\* returned and the candidates probed are all those up to the current one,
\* in order; when fastest_mirror returns, and when download returns for want
\* of a mirror, every candidate has been probed, the ones after a failed
\* probe included.
C9_FailedProbeIsSkipped ==
    \A p \in Procs :
        LET n == Len(Candidates(d[p]))
        IN  /\ d[p].pc = "race" =>
                  /\ d[p].result = None
                  /\ d[p].idx <= n + 1
                  /\ Len(d[p].speeds) = d[p].idx - 1
                  /\ Probed(p) = [i \in 1..(d[p].idx - 1) |-> i]
            /\ d[p].pc = "probe" =>
                  /\ d[p].result = None
                  /\ d[p].idx <= n
                  /\ Probed(p) = [i \in 1..d[p].idx |-> i]
            /\ RaceReturned(d[p]) => Probed(p) = [i \in 1..n |-> i]
            /\ (d[p].pc = "done" /\ IsSome(d[p].mirror_options)) =>
                  /\ Len(d[p].speeds) = n
                  /\ Probed(p) = [i \in 1..n |-> i]

\* the first probe failed, the second one succeeded and its candidate is returned
C9_Witness ==
    /\ RaceReturned(d[1])
    /\ Len(d[1].speeds) >= 2
    /\ ~d[1].speeds[1].ok
    /\ d[1].speeds[2].ok
    /\ d[1].fastest_mirror = Some(Candidates(d[1])[2])
    /\ Candidates(d[1])[2] # Candidates(d[1])[1]

\* C10: whenever fastest_mirror holds Some(m), and so when it returns it, m
\* is a candidate whose probe succeeded with the result kept as the leader's,
\* and no successfully probed candidate has a result that outranks it.
C10_SelectedIsUnbeaten ==
    \A p \in Procs :
        (d[p].pc \in {"race", "probe"} /\ IsSome(d[p].fastest_mirror)) =>
            \E i \in 1..Len(d[p].speeds) :
                /\ Candidates(d[p])[i] = Unwrap(d[p].fastest_mirror)
                /\ d[p].speeds[i].ok
                /\ d[p].speeds[i].v = d[p].fastest_speed
                /\ \A j \in 1..Len(d[p].speeds) :
                      d[p].speeds[j].ok => ~gt(d[p].speeds[j].v, d[p].speeds[i].v)

\* two probes succeeded, the first outranks the second and is the one returned
C10_Witness ==
    /\ RaceReturned(d[1])
    /\ Len(d[1].speeds) >= 2
    /\ d[1].speeds[1].ok
    /\ d[1].speeds[2].ok
    /\ gt(d[1].speeds[1].v, d[1].speeds[2].v)
    /\ Candidates(d[1])[2] # Candidates(d[1])[1]
    /\ d[1].fastest_mirror = Some(Candidates(d[1])[1])

\* the comparisons of the three drawn probe results, once made
Ranked == calc # None /\ IsSome(calc.out)
Outranks(i, j) == Unwrap(calc.out)[i][j]
Tied(i, j) == ~Outranks(i, j) /\ ~Outranks(j, i)

\* C11: BytesOrTime::gt is a strict weak ordering of the probe results:
\* irreflexive, asymmetric, transitive, and being tied (neither outranks the
\* other) is transitive.
C11_GtIsStrictWeakOrder ==
    Ranked =>
        \A i \in 1..3, j \in 1..3, k \in 1..3 :
            /\ ~Outranks(i, i)
            /\ Outranks(i, j) => ~Outranks(j, i)
            /\ (Outranks(i, j) /\ Outranks(j, k)) => Outranks(i, k)
            /\ (Tied(i, j) /\ Tied(j, k)) => Tied(i, k)

\* a chain over both tags: a byte-cutoff result outranks a byte count that
\* outranks another one
C11_Witness ==
    /\ Ranked
    /\ calc.args[1].tag = "Time"
    /\ calc.args[2].tag = "Bytes"
    /\ calc.args[3].tag = "Bytes"
    /\ Outranks(1, 2)
    /\ Outranks(2, 3)
    /\ Outranks(1, 3)

\* C12: Time(t1).gt(Time(t2)) iff t1 < t2; Bytes(b1).gt(Bytes(b2)) iff
\* b1 > b2; Time(t).gt(Bytes(b)) always; Bytes(b).gt(Time(t)) never.
C12_GtTable ==
    Ranked =>
        \A i \in 1..3, j \in 1..3 :
            LET x == calc.args[i]
                y == calc.args[j]
            IN  /\ (x.tag = "Time" /\ y.tag = "Time") => (Outranks(i, j) <=> x.v < y.v)
                /\ (x.tag = "Bytes" /\ y.tag = "Bytes") => (Outranks(i, j) <=> x.v > y.v)
                /\ (x.tag = "Time" /\ y.tag = "Bytes") => Outranks(i, j)
                /\ (x.tag = "Bytes" /\ y.tag = "Time") => ~Outranks(i, j)

\* a slow byte-cutoff result against a fast one and against a large byte count
C12_Witness ==
    /\ Ranked
    /\ calc.args[1] = Time(1)
    /\ calc.args[2] = Time(0)
    /\ calc.args[3] = Bytes(2)
    /\ Outranks(2, 1)
    /\ ~Outranks(1, 2)
    /\ Outranks(1, 3)
    /\ ~Outranks(3, 1)

\* the requests attempt p has made, in order, in the log l
Requests(l, p) == EventsIn(l, p, {"probe_get", "get"})

\* the positions of download after the GET of the chosen source succeeded
AfterGet == {"create", "stream", "write", "set_position", "update", "finish", "verify"}

\* C13: download never retries: every candidate of the race is probed at
\* most once, the chosen source receives exactly one GET, and once that GET
\* is made no other request follows, whether it or its stream fails or not:
\* a failure of the GET or of the stream is returned at once.
C13_NoRetry ==
    [][\A p \in Procs :
         LET probes == Args(EventsIn(log', p, {"probe_get"}))
             gets == EventsIn(log', p, {"get"})
         IN  /\ Cardinality({probes[i] : i \in 1..Len(probes)}) = Len(probes)
             /\ Len(gets) <= 1
             /\ d'[p].pc \in AfterGet =>
                   /\ Len(gets) = 1
                   /\ gets[1].arg = Unwrap(d'[p].chosen)
             /\ EventsIn(log, p, {"get"}) # <<>> => Requests(log', p) = Requests(log, p)
             /\ (d[p].pc \in {"get", "stream"} /\ IsErr(d'[p].result)) =>
                   /\ d'[p].pc = "done"
                   /\ d'[p].result = Some(NetworkError)
                   /\ Len(gets) = 1
                   /\ Requests(log', p)[Len(Requests(log', p))] = gets[1]]_vars

\* after a race over two candidates the stream of the chosen one failed
\* behind its first chunk, and download returned with its one GET made
C13_Witness ==
    /\ d[1].pc = "done"
    /\ d[1].result = Some(NetworkError)
    /\ Probed(1) = <<1, 2>>
    /\ Len(EventsOf(1, {"get"})) = 1
    /\ EventsOf(1, {"recv"}) # <<>>

\* C14: when the stream is exhausted without error, finish is called on the
\* progress sink (iff one is present) and only then verify on the verifier
\* (iff one is present), each once and neither before the end of the stream;
\* a failure of verify is what download returns, and the file this attempt
\* wrote in full is still at the destination.
C14_FinishThenVerify ==
    \A p \in Procs :
        LET L == EventsOf(p, {"end", "finish", "verify"})
            ops == [i \in 1..Len(L) |-> L[i].op]
            ended == EventsOf(p, {"end"}) # <<>>
        IN  /\ ops \in {<<>>, <<"end">>, <<"end", "finish">>, <<"end", "verify">>,
                         <<"end", "finish", "verify">>}
            /\ (ended /\ d[p].pc \in {"verify", "done"}) =>
                  (d[p].progress <=> EventsOf(p, {"finish"}) # <<>>)
            /\ (ended /\ d[p].pc = "done") =>
                  /\ IsSome(d[p].verifier) <=> EventsOf(p, {"verify"}) # <<>>
                  /\ d[p].result = Some(IF IsSome(d[p].ver) THEN Verify(Unwrap(d[p].ver))
                                                             ELSE Ok)
                  /\ IsErr(d[p].result) =>
                        /\ Unwrap(d[p].result).kind = "Verify"
                        /\ fs.exists
                        /\ fs.creator = p
                        /\ fs.data = Streamed(p)

\* progress was finished, then the hash of the written bytes did not match
C14_Witness ==
    /\ d[1].pc = "done"
    /\ d[1].result = Some(Err("Verify", <<"Hash mismatch">>))
    /\ EventsOf(1, {"finish"}) # <<>>
    /\ EventsOf(1, {"verify"}) # <<>>
    /\ fs.creator = 1
    /\ fs.data # <<>>

\* C15: verify is called at most once, only after the stream has ended and
\* every received chunk has been passed to update, in arrival order; it is
\* the last call on the verifier (no update follows it); a download whose
\* stream yields an error returns without calling verify, then or later.
C15_VerifyOnceAtEnd ==
    [][\A p \in Procs :
         LET L == EventsIn(log', p, {"recv", "update", "end", "verify"})
             n == Len(L)
         IN  /\ Len(EventsIn(log', p, {"verify"})) <= 1
             /\ EventsIn(log', p, {"verify"}) # <<>> =>
                   /\ IsSome(d'[p].verifier)
                   /\ n >= 2
                   /\ L[n].op = "verify"
                   /\ L[n - 1].op = "end"
                   /\ Args(EventsIn(log', p, {"update"})) = Args(EventsIn(log', p, {"recv"}))
             /\ EventsIn(log, p, {"verify"}) # <<>> =>
                   EventsIn(log', p, {"update", "verify"}) = EventsIn(log, p, {"update", "verify"})
             /\ (d[p].pc = "stream" /\ d'[p].pc # "write" /\ EventsIn(log', p, {"end"}) = <<>>) =>
                   /\ IsErr(d'[p].result) \/ d'[p] = d[p]
                   /\ EventsIn(log', p, {"verify"}) = <<>>
             /\ (IsErr(d[p].result) /\ EventsIn(log, p, {"end"}) = <<>>) =>
                   EventsIn(log', p, {"verify"}) = <<>>]_vars

\* two chunks were received and fed, the stream ended and verify was called
C15_Witness ==
    /\ d[1].pc = "done"
    /\ Len(EventsOf(1, {"update"})) = 2
    /\ EventsOf(1, {"verify"}) # <<>>
    /\ Args(EventsOf(1, {"update"})) = <<<<1, 0>>, <<0>>>>

\* attempt p has created the destination file, by the log l
Created(l, p) == EventsIn(l, p, {"create"}) # <<>>

\* C16: of the attempts on one destination path at most one creates the
\* file; an attempt whose create_new finds the file there returns an Io
\* error in that step and changes nothing; an attempt that has not created
\* the file has written no byte to it, and the file holds the bytes its
\* creator wrote and nothing else.
C16_OneCreator ==
    [][\A p \in Procs :
         /\ \A q \in Procs : (Created(log', p) /\ Created(log', q)) => p = q
         /\ Created(log', p) => fs'.creator = p
         /\ ~Created(log', p) => EventsIn(log', p, {"write", "write_failed"}) = <<>>
         /\ fs'.creator = p =>
               fs'.data = Flatten(Args(EventsIn(log', p, {"write", "write_failed"})))
         /\ (d[p].pc = "create" /\ fs.exists /\ d'[p] # d[p]) =>
               /\ d'[p].pc = "done"
               /\ d'[p].result = Some(IoError)
               /\ fs' = fs
               /\ log' = log
         /\ (d'[p].pc = "done" /\ ~Created(log', p)) =>
               d'[p].result \in {Some(IoError), Some(NetworkError)}]_vars

\* attempt 2 created the file, attempt 1 made its request after that and
\* returned Io, attempt 2 went on to write and returned Ok
C16_Witness ==
    /\ d[1].pc = "done"
    /\ d[1].result = Some(IoError)
    /\ d[2].pc = "done"
    /\ d[2].result = Some(Ok)
    /\ fs.creator = 2
    /\ fs.data # <<>>
    /\ \E i \in 1..Len(log), j \in 1..Len(log), k \in 1..Len(log) :
          /\ i < j
          /\ j < k
          /\ log[i] = Event(2, "create", <<>>)
          /\ log[j].p = 1
          /\ log[j].op = "get"
          /\ log[k].p = 2
          /\ log[k].op = "write"

\* C17: when the stream of the chosen source yields an error after k chunks,
\* download returns that error in that step and leaves the file as it is:
\* there, created by this attempt and holding exactly the k chunks in order;
\* and so it is found once download has returned.
C17_PartialFileLeft ==
    [][\A p \in Procs :
         /\ (d[p].pc = "stream" /\ IsErr(d'[p].result)) =>
               /\ d'[p].pc = "done"
               /\ d'[p].result = Some(NetworkError)
               /\ Len(EventsIn(log, p, {"recv"})) = d[p].nchunks
               /\ fs' = fs
               /\ fs'.exists
               /\ fs'.creator = p
               /\ fs'.data = Flatten(Args(EventsIn(log', p, {"recv"})))
         /\ (d'[p].pc = "done" /\ d'[p].result = Some(NetworkError) /\ Created(log', p)) =>
               /\ fs'.exists
               /\ fs'.creator = p
               /\ fs'.data = Flatten(Args(EventsIn(log', p, {"recv"})))]_vars

\* the stream failed behind two chunks; the file holds both
C17_Witness ==
    /\ d[1].pc = "done"
    /\ d[1].result = Some(NetworkError)
    /\ Len(EventsOf(1, {"recv"})) = 2
    /\ fs = File(<<1, 0, 0>>, 1)

\* C18 (as claimed): every probe is bounded by the time budget, so that
\* fastest_mirror eventually returns whatever the candidates do, a candidate
\* whose stream stops delivering without ending included.
C18_RaceReturns ==
    \A p \in Procs : (d[p].pc \in {"race", "probe", "stalled"}) ~> RaceReturned(d[p])

\* the probes of the race of attempt r that have failed so far
FailedProbes(r) == {i \in 1..Len(r.speeds) : ~r.speeds[i].ok}

\* C19 (as claimed): during the mirror race of a download whose mirror
\* options carry an error handler, the handler has been called once for
\* every probe that has failed.
C19_HandlerCalled ==
    \A p \in Procs :
        (/\ d[p].pc \in {"race", "probe"}
         /\ IsSome(d[p].mirror_options)
         /\ IsSome(Unwrap(d[p].mirror_options).error_handler)) =>
            Len(EventsOf(p, {"error_handler"})) = Cardinality(FailedProbes(d[p]))

InvalidHashLength == Err("Verify", <<"Invalid hash length">>)

\* the option holds a HashVerifierBuilder whose hash has not the digest's length
WrongLengthHash(verifier) ==
    /\ IsSome(verifier)
    /\ Unwrap(verifier).kind = "hash"
    /\ Len(Unwrap(verifier).hash) # DigestOutputSize

\* C20: HashVerifierBuilder::build fails, with kind Verify, exactly when the
\* length of the expected hash differs from the digest's output size: no
\* HashVerifier holds a hash of another length; a download that builds such
\* a verifier returns that error at once, with no update or verify call and
\* before the progress sink, the GET and the file; a builder whose hash has
\* the right length is built; and exist, when it gets to build the
\* verifier, fails in the same cases.
C20_WrongLengthFailsBuild ==
    \A p \in Procs :
        /\ IsSome(d[p].ver) /\ Unwrap(d[p].ver).kind = "hash" =>
              Len(Unwrap(d[p].ver).hash) = DigestOutputSize
        /\ WrongLengthHash(d[p].verifier) =>
              /\ d[p].pc = "done"
              /\ d[p].result = Some(InvalidHashLength)
              /\ d[p].ver = None
              /\ EventsOf(p, {"update", "verify", "init", "get", "create"}) = <<>>
        /\ (IsSome(d[p].verifier) /\ ~WrongLengthHash(d[p].verifier)) =>
              /\ IsSome(d[p].ver)
              /\ Unwrap(d[p].ver).kind = Unwrap(d[p].verifier).kind
              /\ d[p].result # Some(InvalidHashLength)
        /\ IsSome(d[p].exist_call) =>
              LET call == Unwrap(d[p].exist_call)
              IN  IF WrongLengthHash(call.verifier) /\ fs.exists /\ Len(fs.data) = call.size
                  THEN call.result \in {InvalidHashLength, IoError}
                  ELSE call.result # InvalidHashLength

\* a download without mirror options was given a hash that is too long
C20_Witness ==
    /\ d[1].pc = "done"
    /\ WrongLengthHash(d[1].verifier)
    /\ Len(Unwrap(d[1].verifier).hash) = DigestOutputSize + 1
    /\ d[1].result = Some(InvalidHashLength)
    /\ log = <<>>

\* verify has returned on verifier k of the SizeVerifier specification
Verified(k) == calc # None /\ IsSome(calc.out[k])

\* the bytes passed to update on verifier k so far
Fed(k) == Sum(SubSeq(calc.cuts[k], 1, calc.next[k] - 1))

\* C21: two fresh SizeVerifiers with the same expected size that were fed
\* the same byte sequence, each in its own cut into chunks (empty chunks
\* included), return the same verdict from verify.
C21_VerdictIgnoresChunking ==
    (Verified(1) /\ Verified(2) /\ Fed(1) = Len(calc.data) /\ Fed(2) = Len(calc.data)) =>
        calc.out[1] = calc.out[2]

\* two bytes fed as 1 + 1 to one verifier and as 0 + 2 to the other, and
\* both verify
C21_Witness ==
    /\ Verified(1)
    /\ Verified(2)
    /\ calc.cuts = <<<<1, 1>>, <<0, 2>>>>
    /\ calc.next = <<3, 3>>
    /\ calc.out = <<Some(Ok), Some(Ok)>>

\* C22: SizeVerifier::verify returns Ok iff the number of bytes passed to
\* update since build equals the expected size; otherwise it returns an
\* error of kind Verify whose description names the expected and the actual
\* count.
C22_SizeVerdict ==
    \A k \in 1..2 :
        Verified(k) =>
            LET out == Unwrap(calc.out[k])
            IN  /\ out.ok <=> Fed(k) = calc.expected
                /\ ~out.ok =>
                      out = Err("Verify", <<"File size mismatch: expected ", calc.expected,
                                            ", got ", Fed(k)>>)

\* two bytes were fed in two chunks to a verifier that expected one
C22_Witness ==
    /\ Verified(1)
    /\ calc.expected = 1
    /\ calc.cuts[1] = <<1, 1>>
    /\ Fed(1) = 2
    /\ ~Unwrap(calc.out[1]).ok

\* the comparisons of the three drawn error kinds, once made
Compared == calc # None /\ IsSome(calc.out)

\* C23 (as claimed): comparing ErrorKind::Other with ErrorKind::Other yields
\* not-equal.
C23_OtherNeverEqual ==
    Compared =>
        \A i \in 1..3, j \in 1..3 :
            (calc.args[i] = "Other" /\ calc.args[j] = "Other") => ~Unwrap(calc.out)[i][j]

\* C23 (amended): two error kinds compare equal iff they are the same
\* variant, Other included: ErrorKind::Other == ErrorKind::Other holds, and
\* Other differs from every other kind.
C23_EqIsSameVariant ==
    Compared =>
        \A i \in 1..3, j \in 1..3 :
            /\ Unwrap(calc.out)[i][j] <=> calc.args[i] = calc.args[j]
            /\ (calc.args[i] = "Other" /\ calc.args[j] = "Other") => Unwrap(calc.out)[i][j]

\* Other was compared with Other (equal) and with Io (not equal)
C23_Witness ==
    /\ Compared
    /\ calc.args = <<"Other", "Other", "Io">>
    /\ Unwrap(calc.out)[1][2]
    /\ ~Unwrap(calc.out)[1][3]

\* the extensions ArchiveFile::extract accepts, as the claim lists them
SupportedExtensions == {<<"zip">>, <<"tar">>, <<"tgz">>, <<"tar", ".", "gz">>}

\* the name is a non-empty stem, a dot and a supported extension
HasSupportedExtension(name) ==
    \E ext \in SupportedExtensions :
        /\ Len(name) > Len(ext) + 1
        /\ SubSeq(name, Len(name) - Len(ext), Len(name)) = <<".">> \o ext

\* C24: ArchiveFile::extract on a file that opens and whose name has no
\* extension, or one that is none of zip, tar, tgz and tar.gz, returns an error
\* of kind Extract, calls no mapper and writes nothing.
C24_UnsupportedIsExtractError ==
    [][(calc # None /\ calc.pc = "open" /\ ~HasSupportedExtension(Unwrap(calc.name))
        /\ calc'.opened)
       => /\ calc'.pc = "done"
          /\ IsErr(calc'.result) /\ Unwrap(calc'.result).kind = "Extract"
          /\ calc'.calls = <<>> /\ calc'.disk = {}]_vars

\* the file "x.x" was opened and refused without a mapper call or a write
C24_Witness ==
    /\ calc # None /\ calc.pc = "done" /\ calc.opened
    /\ calc.name = Some(<<"x", ".", "x">>)
    /\ Unwrap(calc.result).kind = "Extract"
    /\ calc.calls = <<>> /\ calc.disk = {}

\* C25: Archive::extract writes an entry iff the mapper answers Some(path) for
\* it, at that path and with its parent directories; on None nothing is created
\* and the loop goes on.  (Stated for the turns of the loop that end without an
\* error.)
C25_WrittenIffMapped ==
    [][(calc # None /\ calc.pc \in {"zip", "tar"} /\ Len(calc'.calls) > Len(calc.calls)
        /\ calc'.result = None)
       => LET e == calc'.calls[Len(calc'.calls)]
          IN  /\ calc'.pc = calc.pc
              /\ IsSome(e.to) <=>
                    \E r \in calc'.disk : r.entry = Len(calc'.calls)
              /\ IsSome(e.to) =>
                    /\ \E r \in calc'.disk :
                          r.entry = Len(calc'.calls) /\ r.path = Unwrap(e.to)
                    /\ \A k \in 1..(Len(Unwrap(e.to)) - 1) :
                          \E r \in calc'.disk : r.path = SubSeq(Unwrap(e.to), 1, k)
              /\ e.to = None => calc'.disk = calc.disk]_vars

\* the probe of candidate i succeeded and no successful probe outranks it
Unbeaten(r, i) ==
    /\ r.speeds[i].ok
    /\ \A j \in 1..Len(r.speeds) : r.speeds[j].ok => ~gt(r.speeds[j].v, r.speeds[i].v)

\* C26 (as claimed): the leader changes only for a result that outranks it, and
\* when fastest_mirror returns, the earliest of the unbeaten candidates (which
\* are tied with one another) is the one returned.
C26_EarliestTiedReturned ==
    \A p \in Procs :
        RaceReturned(d[p]) =>
            \A i \in 1..Len(d[p].speeds) :
                (Unbeaten(d[p], i) /\ \A j \in 1..(i - 1) : ~Unbeaten(d[p], j)) =>
                    d[p].fastest_mirror = Some(Candidates(d[p])[i])

Ended(p) == {e.arg : e \in {log[k] : k \in {j \in 1..Len(log) :
                                             log[j].p = p /\ log[j].op = "probe_end"}}}

\* C28: a candidate whose stream ends before a cutoff is hit makes speedtest
\* return a Network error; it is not the leader unless a probe of the same URL
\* at another place succeeded, and when every candidate ended so or failed,
\* nothing is selected and download returns "No mirrors available".
C28_EarlyEndIsNotSelected ==
    \A p \in Procs :
        (d[p].speeds # <<>> /\ Ended(p) # {}) =>
            /\ \A i \in Ended(p) :
                  /\ i <= Len(d[p].speeds)
                  /\ ~d[p].speeds[i].ok
                  /\ d[p].speeds[i].kind = "Network"
                  /\ d[p].fastest_mirror = Some(Candidates(d[p])[i]) =>
                        \E j \in 1..Len(d[p].speeds) :
                            /\ d[p].speeds[j].ok
                            /\ Candidates(d[p])[j] = Candidates(d[p])[i]
            /\ (\A i \in 1..Len(d[p].speeds) : ~d[p].speeds[i].ok) =>
                  /\ d[p].fastest_mirror = None
                  /\ d[p].pc = "done" =>
                        d[p].result = Some(Err("Network", <<"No mirrors available">>))

\* the only candidate sent one chunk and ended: download returns the error
C28_Witness ==
    /\ d[1].pc = "done"
    /\ Len(d[1].speeds) = 1
    /\ Ended(1) = {1}
    /\ d[1].probe_downloaded = 1
    /\ d[1].result = Some(Err("Network", <<"No mirrors available">>))

\* the places of the candidates attempt p had sent a probe GET to in log l
ProbedIn(l, p) == Args(EventsIn(l, p, {"probe_get"}))

\* C29: the race probes the candidates one after another in the order of the
\* sequence primary, mirrors: a probe GET goes to the candidate after the last
\* one probed and only when every earlier probe has returned, so at most one
\* probe is in flight and, when the race returns, each candidate has been
\* probed exactly once.
C29_ProbesAreSequential ==
    /\ [](\A p \in Procs :
            d[p].pc \in {"race", "probe"} =>
                /\ ProbedIn(log, p) = [i \in 1..Len(ProbedIn(log, p)) |-> i]
                /\ Len(ProbedIn(log, p)) - Len(d[p].speeds) =
                      IF d[p].pc = "probe" THEN 1 ELSE 0
                /\ RaceReturned(d[p]) =>
                      ProbedIn(log, p) = [i \in 1..Len(Candidates(d[p])) |-> i])
    /\ [][\A p \in Procs :
            ProbedIn(log', p) # ProbedIn(log, p) =>
                /\ d[p].pc = "race"
                /\ Len(d[p].speeds) = Len(ProbedIn(log, p))
                /\ ProbedIn(log', p) = Append(ProbedIn(log, p), Len(d[p].speeds) + 1)
                /\ Len(d[p].speeds) < Len(Candidates(d[p]))]_vars

\* the race over two different candidates has returned, both probes succeeded
C29_Witness ==
    /\ RaceReturned(d[1])
    /\ ProbedIn(log, 1) = <<1, 2>>
    /\ Candidates(d[1])[1] # Candidates(d[1])[2]
    /\ d[1].speeds[1].ok /\ d[1].speeds[2].ok

\* the place of each event in the course of a download
Phase ==
    [probe_get |-> 1, probe_end |-> 1, init |-> 2, get |-> 3, create |-> 4,
     recv |-> 5, write |-> 5, write_failed |-> 5, set_position |-> 5, update |-> 5,
     end |-> 5, finish |-> 6, verify |-> 7]

\* C30: the events of a download go forward only: the probes, the GET of the
\* chosen source, the creation of the destination, the chunks and their
\* writes, finish; one GET and one creation at most, no write without the
\* file created and no creation without the GET.  The race is entered iff
\* mirror options were supplied, and only a download holding options probes.
C30_ForwardOrder ==
    /\ [](\A p \in Procs :
            LET L == EventsOf(p, DOMAIN Phase)
            IN  /\ \A i \in 1..(Len(L) - 1) : Phase[L[i].op] <= Phase[L[i + 1].op]
                /\ Len(EventsOf(p, {"get"})) <= 1
                /\ Len(EventsOf(p, {"create"})) <= 1
                /\ EventsOf(p, {"write", "write_failed"}) # <<>> =>
                      EventsOf(p, {"create"}) # <<>>
                /\ EventsOf(p, {"create"}) # <<>> => EventsOf(p, {"get"}) # <<>>)
    /\ [][\A p \in Procs :
            /\ (d[p].pc = "start" /\ d'[p].pc # "start") =>
                  /\ IsSome(d'[p].mirror_options) <=> d'[p].pc = "race"
                  /\ d'[p].mirror_options = None <=> d'[p].pc = "build"
            /\ ProbedIn(log', p) # ProbedIn(log, p) => IsSome(d[p].mirror_options)
            /\ (d[p].pc = "race" /\ d'[p].pc = "build") =>
                  ProbedIn(log, p) # <<>>]_vars

\* a download with a race, one chunk written and finish called has returned Ok
C30_Witness ==
    /\ d[1].pc = "done"
    /\ d[1].result = Some(Ok)
    /\ Args(EventsOf(1, DOMAIN Phase)) # <<>>
    /\ EventsOf(1, {"probe_get"}) # <<>>
    /\ EventsOf(1, {"write"}) # <<>>
    /\ EventsOf(1, {"finish"}) # <<>>

\* the bytes attempt p has put into the destination file
Written(p) == Flatten(Args(EventsOf(p, {"write", "write_failed"})))

\* C31: what a probe reads only ranks: a download that has created the
\* destination has issued, after its last probe, one GET of its own to the
\* chosen source, and the file holds, from byte 0, the bytes written from the
\* chunks of that response and nothing else.
C31_FileHoldsOnlyTheFreshStream ==
    \A p \in Procs :
        fs.creator = p =>
            LET L == EventsOf(p, {"probe_get", "probe_end", "get", "create", "recv"})
                g == {i \in 1..Len(L) : L[i].op = "get"}
            IN  /\ Cardinality(g) = 1
                /\ \A i \in g :
                      /\ L[i].arg = Unwrap(d[p].chosen)
                      /\ \A j \in 1..Len(L) :
                            /\ L[j].op \in {"probe_get", "probe_end"} => j < i
                            /\ L[j].op \in {"create", "recv"} => j > i
                /\ fs.data = Written(p)
                /\ Len(fs.data) <= Len(Streamed(p))
                /\ fs.data = SubSeq(Streamed(p), 1, Len(fs.data))

\* after a race a chunk of two bytes was received and written
C31_Witness ==
    /\ fs.creator = 1
    /\ EventsOf(1, {"probe_get"}) # <<>>
    /\ Len(EventsOf(1, {"get"})) = 1
    /\ fs.data = <<1, 0>>
    /\ Streamed(1) = <<1, 0>>

\* C32: when download returns Ok, the destination was created by this
\* attempt, the stream of the chosen source ran to its end, the file holds
\* the chunks of that stream in the order of arrival, and the verdict of the
\* verifier, if one was supplied, over exactly those bytes is Ok.
C32_OkMeansWholeStreamVerified ==
    \A p \in Procs :
        (d[p].pc = "done" /\ d[p].result = Some(Ok)) =>
            /\ fs.exists
            /\ fs.creator = p
            /\ EventsOf(p, {"end"}) # <<>>
            /\ fs.data = Streamed(p)
            /\ IsSome(d[p].verifier) =>
                  /\ Build(Unwrap(d[p].verifier)).ok
                  /\ Verify(Update(Build(Unwrap(d[p].verifier)).v, Streamed(p))).ok
                  /\ Flatten(Args(EventsOf(p, {"update"}))) = Streamed(p)
                  /\ Len(EventsOf(p, {"verify"})) = 1

\* two chunks arrived, a hash verifier was supplied, download returned Ok
C32_Witness ==
    /\ d[1].pc = "done"
    /\ d[1].result = Some(Ok)
    /\ IsSome(d[1].verifier)
    /\ Unwrap(d[1].verifier).kind = "hash"
    /\ Len(EventsOf(1, {"recv"})) = 2
    /\ fs.data = <<0, 1, 0>>

\* the positions reported to the progress sink of attempt p
Positions(p) == Args(EventsOf(p, {"set_position"}))

\* C33: whenever the loop has dealt with a chunk to the end, the bytes written
\* to the file, the last position reported (if there is a sink) and the bytes
\* fed to the verifier (if there is one) are the same number; the positions
\* never go down; finish is called once at most and after every set_position.
C33_CountsAgree ==
    \A p \in Procs :
        LET L == EventsOf(p, {"set_position", "finish"})
            n == Len(EventsOf(p, {"recv"}))
        IN  /\ (d[p].pc \in {"stream", "finish", "verify"} /\ fs.creator = p) =>
                  /\ Len(fs.data) = d[p].downloaded
                  /\ Len(Written(p)) = Len(fs.data)
                  /\ d[p].progress =>
                        /\ Len(Positions(p)) = n
                        /\ n > 0 => Positions(p)[n] = Len(fs.data)
                  /\ IsSome(d[p].ver) =>
                        /\ Len(Flatten(Args(EventsOf(p, {"update"})))) = Len(fs.data)
                        /\ Unwrap(d[p].ver).kind = "size" =>
                              Unwrap(d[p].ver).current_size = Len(fs.data)
            /\ \A i \in 1..(Len(Positions(p)) - 1) : Positions(p)[i] <= Positions(p)[i + 1]
            /\ Len(EventsOf(p, {"finish"})) <= 1
            /\ \A i \in 1..Len(L) : L[i].op = "finish" => i = Len(L)

\* two chunks were dealt with, sink and size verifier present, finish called
C33_Witness ==
    /\ d[1].pc = "verify"
    /\ Positions(1) = <<1, 3>>
    /\ IsSome(d[1].ver)
    /\ Unwrap(d[1].ver).kind = "size"
    /\ Unwrap(d[1].ver).current_size = 3
    /\ Len(fs.data) = 3
    /\ EventsOf(1, {"finish"}) # <<>>

\* C35: when build fails, download returns build's error in that very step,
\* after the race if mirror options were supplied, with the progress sink not
\* initialized, no GET of the chosen source and no file created: the
\* destination is as it was before the download.
C35_BuildFailureComesFirst ==
    /\ [][\A p \in Procs :
            (d[p].pc = "build" /\ d'[p].pc = "done") =>
                /\ IsSome(d'[p].verifier)
                /\ ~Build(Unwrap(d'[p].verifier)).ok
                /\ d'[p].result = Some(Build(Unwrap(d'[p].verifier)))
                /\ log' = log
                /\ fs' = fs]_vars
    /\ [](\A p \in Procs :
            (d[p].pc \in {"build", "done"} /\ IsSome(d[p].verifier)
             /\ ~Build(Unwrap(d[p].verifier)).ok) =>
                /\ d[p].pc = "done"
                /\ EventsOf(p, DOMAIN Phase) = EventsOf(p, {"probe_get", "probe_end"})
                /\ fs \in InitialFiles)

\* the race chose a source, then the hash given was too short: there is no file
C35_Witness ==
    /\ d[1].pc = "done"
    /\ IsSome(d[1].verifier)
    /\ d[1].result = Some(Build(Unwrap(d[1].verifier)))
    /\ IsErr(d[1].result)
    /\ IsSome(d[1].chosen)
    /\ EventsOf(1, {"probe_get"}) # <<>>
    /\ fs = NoFile

\* C36: when the GET of the chosen source fails, download returns a Network
\* error in that step and leaves the destination alone; a progress sink, if
\* one was supplied, was initialized with the expected size before and gets
\* neither set_position nor finish.
C36_GetFailureLeavesNoFile ==
    /\ [][\A p \in Procs :
            (d[p].pc = "get" /\ d'[p].pc = "done") =>
                /\ IsErr(d'[p].result)
                /\ Unwrap(d'[p].result).kind = "Network"
                /\ fs' = fs
                /\ EventsIn(log', p, {"create", "set_position", "finish"}) = <<>>
                /\ EventsIn(log', p, {"init"}) =
                      IF d[p].progress THEN <<Event(p, "init", d[p].size)>> ELSE <<>>
                /\ LET L == EventsIn(log', p, {"init", "get"})
                   IN  L[Len(L)] = Event(p, "get", Unwrap(d[p].chosen))]_vars
    /\ [](\A p \in Procs :
            (d[p].pc = "done" /\ EventsOf(p, {"get"}) # <<>>
             /\ EventsOf(p, {"create"}) = <<>> /\ d[p].result = Some(NetworkError)) =>
                /\ fs.creator # p
                /\ EventsOf(p, {"set_position", "finish", "write", "recv"}) = <<>>)

\* the sink was initialized with size 1, the GET failed, there is no file
C36_Witness ==
    /\ d[1].pc = "done"
    /\ d[1].result = Some(NetworkError)
    /\ d[1].progress
    /\ EventsOf(1, {"init"}) = <<Event(1, "init", 1)>>
    /\ EventsOf(1, {"get"}) # <<>>
    /\ fs = NoFile

\* C34: the count of a SizeVerifier is the smaller of the sum of the lengths
\* fed and u64::MAX after any updates, so that a total beyond u64::MAX is never
\* taken for a smaller expected size.
C34_CountSaturates ==
    (calc # None) =>
        /\ calc.v.current_size = Min(Sum(calc.lens), U64Max)
        /\ IsSome(calc.out) =>
              (Unwrap(calc.out).ok <=> Min(Sum(calc.lens), U64Max) = calc.v.expected_size)
        /\ (IsSome(calc.out) /\ Sum(calc.lens) > U64Max /\ calc.v.expected_size < U64Max) =>
              IsErr(calc.out)

\* two longest slices and two bytes more are u64::MAX + 1 bytes: expected 0 fails
C34_Witness ==
    /\ calc # None
    /\ calc.lens = <<ISizeMax, ISizeMax, 2>>
    /\ Sum(calc.lens) = U64Max + 1
    /\ calc.v.current_size = U64Max
    /\ calc.v.expected_size = 0
    /\ IsErr(calc.out)

\* C37: update_reader gives update every byte the reader delivers, once and
\* in order, in slices of 1 to READ_BUF_SIZE bytes; it returns Ok at the first
\* read of 0 bytes, with the SizeVerifier as one update with the whole content
\* leaves it and so with the same verdict; it returns Io when a read fails,
\* and never a verdict: verify is left to the caller.
C37_ReaderFeedsEveryByteOnce ==
    (calc # None) =>
        LET v0 == [calc.v EXCEPT !.current_size = 0]
        IN  /\ calc.fed = SubSeq(calc.data, 1, calc.pos)
            /\ Sum(calc.pieces) = calc.pos
            /\ \A i \in 1..Len(calc.pieces) : calc.pieces[i] \in 1..READ_BUF_SIZE
            /\ calc.v.expected_size = v0.expected_size
            /\ IsSome(calc.out) => Unwrap(calc.out) \in {Ok, IoError}
            /\ calc.out = Some(Ok) =>
                  /\ calc.fed = calc.data
                  /\ calc.v = Update(v0, calc.data)
                  /\ calc.v = UpdateReader(v0, calc.data)
                  /\ Verify(calc.v) = Verify(Update(v0, calc.data))

\* a content of READ_BUF_SIZE + 2 bytes was read in a full buffer and a rest,
\* and the verifier expecting that size accepts it
C37_Witness ==
    /\ calc # None
    /\ calc.data = LongData
    /\ calc.pieces = <<READ_BUF_SIZE, 2>>
    /\ calc.out = Some(Ok)
    /\ calc.v.current_size = READ_BUF_SIZE + 2
    /\ Verify(calc.v) = Ok

=============================================================================
